---- MODULE Spec2Model ----
(***************************************************************************)
(* Model of the solver-verifier orchestration engine                       *)
(* (src/solver_verifier/services): one run of the six-stage pipeline       *)
(* through either entry point, with the bounded verification loop of       *)
(* stages 3-5 and the stage-6 decision (Spec, FairSpec); the operations    *)
(* of the drafting adapter (AdapterSpec) and the sub-checks of the         *)
(* verifying adapter (VerifierSpec) as functions of their arguments and    *)
(* oracle outcomes; the oracle call with its retry loop (LlmSpec); the     *)
(* event hub under interleaved connect, disconnect and send (HubSpec) and  *)
(* its broadcast (BroadcastSpec); the progress tracker under any update    *)
(* (TrackerSpec) and the progress events of a session run (SessionSpec).   *)
(***************************************************************************)
EXTENDS Integers, Sequences, FiniteSets, TLC

(***************************************************************************)
(* Bounds of the model and constants of the program.                       *)
(***************************************************************************)

\* number of distinct requirement identifiers the drafting role can produce
MaxReqs == 1

\* PipelineConfig.max_iterations: Field(default=5, ge=1, le=10)
MAX_ITERATIONS_GE == 1
MAX_ITERATIONS_LE == 10

\* PipelineConfig.acceptance_threshold: Field(default=3, ge=1, le=5)
ACCEPTANCE_THRESHOLD_GE == 1
ACCEPTANCE_THRESHOLD_LE == 5

\* ErrorType
CRITICAL_ERROR == "critical_error"
JUSTIFICATION_GAP == "justification_gap"
ErrorType == {CRITICAL_ERROR, JUSTIFICATION_GAP}

\* the two entry points of PipelineService
PLAIN == "process_rfp_documents"
WITH_PROGRESS == "process_rfp_documents_with_progress"
EntryPoints == {PLAIN, WITH_PROGRESS}

\* br_id values
BrIds == 1..MaxReqs

\* the exceptions that leave a step of the run: parse_documents raises
\* ValueError, CoverageMetrics raises ValidationError, send_update raises
\* KeyError, _save_results_to_file re-raises the error of mkdir / open
NONE == "none"
VALUE_ERROR == "ValueError"
VALIDATION_ERROR == "ValidationError"
KEY_ERROR == "KeyError"
OS_ERROR == "OSError"
Exceptions == {VALUE_ERROR, VALIDATION_ERROR, KEY_ERROR, OS_ERROR}

VARIABLES
    entry_point,             \* which entry point this run executes
    max_iterations,          \* settings.pipeline_config.max_iterations
    acceptance_threshold,    \* settings.pipeline_config.acceptance_threshold
    enable_stage_4_review,   \* settings.pipeline_config.enable_stage_4_review
    pc,                      \* position of the run in its entry point
    created,                 \* the RequirementSet of the run has been constructed
    business_requirements,   \* requirement_set.business_requirements (list of br_id)
    verification_issues,     \* requirement_set.verification_issues
    pipeline_stage,          \* requirement_set.pipeline_stage
    iteration_count,         \* requirement_set.iteration_count
    status,                  \* requirement_set.status
    iteration,               \* the index range(max_iterations) yields next
    consecutive_passes,      \* local of the verification loop
    loop_state,              \* Verifying / Fixing / Converged / Exhausted
    result,                  \* running / returned / raised
    last_fail,               \* history: number of the last failing pass (0: none)
    ever_clean,              \* history: some verification pass was clean
    verified_requirements,   \* history: the list handed to the last verify call
    n_verify,                \* history: verification passes that returned
    documents_resolved,      \* history: parse_documents has returned
    fatal,                   \* history: the first exception no stage absorbed
    raised,                  \* the exception that reached the caller
    error_events,            \* error events the except block handed to the hub
    adapter_in,              \* an adapter call: operation, arguments, oracle outcomes
    adapter_out,             \* what the call returned (PENDING before it ran)
    configured,              \* LLMService.client is not None
    json_mode,               \* the call is call_llm_json, not call_llm
    llm_pc,                  \* position of the oracle call
    attempt,                 \* the index range(max_retries + 1) yielded
    failures,                \* history: the failures of the call, in order
    slept,                   \* history: the delays slept, in tenths of a second
    active_connections,      \* WebSocketManager.active_connections
    endpoint,                \* per websocket: new, the session it serves, gone
    sends,                   \* per send_update call: its position and locals
    broadcast,               \* the broadcast_to_all call: position and locals
    progress,                \* the PipelineProgress of a session run
    updated,                 \* the step_id of the last update_step call
    session,                 \* position and locals of the session run
    event,                   \* the last ProgressUpdate handed to send_update
    twin                     \* two runs, one per entry point, on the same inputs

run_vars == <<entry_point, max_iterations, acceptance_threshold,
              enable_stage_4_review, pc, created, business_requirements,
              verification_issues, pipeline_stage, iteration_count, status,
              iteration, consecutive_passes, loop_state, result, last_fail,
              ever_clean, verified_requirements, n_verify,
              documents_resolved, fatal, raised, error_events>>

adapter_vars == <<adapter_in, adapter_out>>

\* the variables a run of the pipeline does not touch
llm_vars == <<configured, json_mode, llm_pc, attempt, failures, slept>>

hub_vars == <<active_connections, endpoint, sends, broadcast>>

tracker_vars == <<progress, updated, session, event>>

twin_vars == <<twin>>

other_vars == <<adapter_vars, llm_vars, hub_vars, tracker_vars, twin_vars>>

vars == <<run_vars, other_vars>>

config_vars == <<entry_point, max_iterations, acceptance_threshold,
                 enable_stage_4_review>>

history_vars == <<last_fail, ever_clean, verified_requirements, n_verify>>

loop_vars == <<iteration, consecutive_passes, loop_state>>

failure_vars == <<documents_resolved, fatal, raised, error_events>>

(***************************************************************************)
(* Pure helpers.                                                           *)
(***************************************************************************)

RECURSIVE SortedSeq(_)
\* a list of distinct br_ids, in ascending order
SortedSeq(S) ==
    IF S = {} THEN <<>>
    ELSE LET m == CHOOSE x \in S : \A y \in S : x <= y
         IN <<m>> \o SortedSeq(S \ {m})

\* the requirement lists the drafting role can return
RequirementLists == {SortedSeq(S) : S \in SUBSET BrIds}

\* a filter that lets every issue through
critical_errors_any_issue(issues) == issues

\* [issue for issue in issues if issue.error_type == "critical_error"]
critical_errors(issues) ==
    SelectSeq(issues, LAMBDA issue : issue.error_type = CRITICAL_ERROR)

\* the issue lists _verify_single_requirement can return for one requirement,
\* as lists of error types: none, a gap, one critical error, two critical
\* errors (two citations that both fail the traceability check)
SingleRequirementIssues ==
    { <<>>, <<JUSTIFICATION_GAP>>, <<CRITICAL_ERROR>>,
      <<CRITICAL_ERROR, CRITICAL_ERROR>> }

RECURSIVE verify_issues(_, _)
\* verify_requirements, lines 51-56: the issues of each requirement, in
\* requirement order; found[b] is what the checks find for br_id b
verify_issues(requirements, found) ==
    IF requirements = <<>> THEN <<>>
    ELSE LET b == Head(requirements)
         IN [k \in 1..Len(found[b]) |->
                [br_id |-> b, error_type |-> found[b][k]]]
            \o verify_issues(Tail(requirements), found)

\* _calculate_coverage_metrics: CoverageMetrics(misinterpretation_rate=
\* critical_errors / max(1, total_requirements)) is validated le=1.0 and
\* raises a ValidationError above 1
metrics_valid(requirements, issues) ==
    LET total_requirements == Len(requirements)
        max1 == IF total_requirements > 1 THEN total_requirements ELSE 1
    IN Len(critical_errors(issues)) <= max1

RECURSIVE fix_verification_issues(_, _, _)
\* AnalyzerService.fix_verification_issues: a requirement with a critical
\* error is kept when the oracle call of _fix_critical_errors succeeds and
\* dropped when it fails (llm_fails holds the br_ids whose call fails);
\* every other requirement is kept
fix_verification_issues(requirements, issues, llm_fails) ==
    IF requirements = <<>> THEN <<>>
    ELSE LET req == Head(requirements)
             req_issues == SelectSeq(issues, LAMBDA i : i.br_id = req)
             rest == fix_verification_issues(Tail(requirements), issues,
                                             llm_fails)
         IN IF critical_errors(req_issues) # <<>> /\ req \in llm_fails
            THEN rest
            ELSE <<req>> \o rest

\* WebSocketManager.send_update either returns or raises the KeyError of
\* its cleanup block when the session entry vanished during delivery
SendOutcomes == {"ok", "KeyError"}

\* no adapter call is under way
PENDING == [raised |-> "pending"]
AdapterIdle ==
    /\ adapter_in = [op |-> "none"]
    /\ adapter_out = PENDING

\* no oracle call is under way
LlmIdle ==
    /\ configured = TRUE
    /\ json_mode = TRUE
    /\ llm_pc = "idle"
    /\ attempt = 0
    /\ failures = <<>>
    /\ slept = <<>>

\* websockets that can connect, sessions, and the send_update calls looked
\* at (two, so that one can overlap the other)
MaxSockets == 3
Sockets == 1..MaxSockets
Sessions == {"s1", "s2"}
Senders == {"first", "second"}

\* a send_update call that has not been made
NotCalled ==
    [pc |-> "idle", session_id |-> "s1", snapshot |-> {}, remaining |-> {},
     delivered |-> {}, connections_to_remove |-> {}]

\* a broadcast_to_all call that has not been made: the keys listed when it
\* starts, those whose turn is still to come, the send_update under way,
\* the sessions send_update took a copy for, those it returned at once for
NoBroadcast ==
    [pc |-> "idle", keys |-> << >>, todo |-> << >>, call |-> NotCalled,
     served |-> {}, skipped |-> {}]

\* WebSocketManager.__init__: no connection, no call under way
HubIdle ==
    /\ active_connections = << >>
    /\ endpoint = [w \in Sockets |-> "new"]
    /\ sends = [p \in Senders |-> NotCalled]
    /\ broadcast = NoBroadcast

\* ProgressStatus, models/progress.py lines 11-15
STEP_PENDING == "pending"
IN_PROGRESS == "in_progress"
COMPLETED == "completed"
STEP_FAILED == "failed"
SKIPPED == "skipped"
ProgressStatus == {STEP_PENDING, IN_PROGRESS, COMPLETED, STEP_FAILED, SKIPPED}

\* the step_ids of the steps list, pipeline_service.py lines 72-77
StepIds ==
    <<"doc_parsing", "stage1", "stage2", "verification_loop", "stage6",
      "completion">>

\* progress_percent: int = None, the argument left out
NO_PERCENT == -1

\* PipelineStep(step_id=...): status pending, progress_percent 0
PipelineStep(step_id) ==
    [step_id |-> step_id, status |-> STEP_PENDING, progress_percent |-> 0]

\* PipelineProgress(current_step=1, overall_progress=0, steps=[...]) with
\* the first n steps of the list, then status = in_progress (lines 65-80)
PipelineProgress(n) ==
    [steps |-> [i \in 1..n |-> PipelineStep(StepIds[i])],
     overall_progress |-> 0,
     current_step |-> 1,
     status |-> IN_PROGRESS,
     current_iteration |-> 1]

\* no update_step call was made
NotUpdated == "none"

\* no ProgressUpdate was handed to the hub
NoEvent ==
    [type |-> "none", step_id |-> "none", status |-> STEP_PENDING,
     progress_percent |-> 0, overall_progress |-> 0]

\* a session run that has not been started
NoSession ==
    [pc |-> "idle", script |-> << >>, max_iterations |-> 1,
     acceptance_threshold |-> 1, iteration |-> 0, consecutive_passes |-> 0,
     in_try |-> FALSE, reported |-> 0,
     emitted |-> [i \in 1..Len(StepIds) |-> {}],
     last_percent |-> [i \in 1..Len(StepIds) |-> NO_PERCENT],
     errors |-> 0, completes |-> 0]

\* no session run: no tracker in use
TrackerIdle ==
    /\ progress = PipelineProgress(0)
    /\ updated = NotUpdated
    /\ session = NoSession
    /\ event = NoEvent

\* the aggregate of a run that has not started, with the history of the
\* values assigned to pipeline_stage and the counts of verify and fix calls
NewRun ==
    [pc |-> "idle", pipeline_stage |-> 1, stages |-> << >>,
     business_requirements |-> << >>, verification_issues |-> << >>,
     iteration_count |-> 0, status |-> "in_progress", iteration |-> 0,
     consecutive_passes |-> 0, n_verify |-> 0, n_fix |-> 0, raised |-> NONE]

\* no pair of runs under comparison
NoTwin ==
    [plain |-> NewRun, with_progress |-> NewRun, max_iterations |-> 1,
     acceptance_threshold |-> 1, enable_stage_4_review |-> FALSE]

TwinIdle == twin = NoTwin

(***************************************************************************)
(* Initial state: a configuration, an entry point, nothing run yet.        *)
(* The aggregate's fields hold the RequirementSet defaults.                *)
(***************************************************************************)
RunInit ==
    /\ entry_point \in EntryPoints
    /\ max_iterations \in MAX_ITERATIONS_GE..MAX_ITERATIONS_LE
    /\ acceptance_threshold \in ACCEPTANCE_THRESHOLD_GE..ACCEPTANCE_THRESHOLD_LE
    /\ enable_stage_4_review \in BOOLEAN
    /\ pc = "start"
    /\ created = FALSE
    /\ business_requirements = <<>>
    /\ verification_issues = <<>>
    /\ pipeline_stage = 1
    /\ iteration_count = 0
    /\ status = "in_progress"
    /\ iteration = 0
    /\ consecutive_passes = 0
    /\ loop_state = "NotStarted"
    /\ result = "running"
    /\ last_fail = 0
    /\ ever_clean = FALSE
    /\ verified_requirements = <<>>
    /\ n_verify = 0
    /\ documents_resolved = FALSE
    /\ fatal = NONE
    /\ raised = NONE
    /\ error_events = 0

Init ==
    RunInit /\ AdapterIdle /\ LlmIdle /\ HubIdle /\ TrackerIdle /\ TwinIdle

(***************************************************************************)
(* The run: one action per stage of the entry point.                       *)
(***************************************************************************)

\* the state an unhandled exception leaves when it is raised outside any
\* try block: it propagates to the caller at once
RaiseToCaller(error) ==
    /\ result' = "raised"
    /\ raised' = error
    /\ pc' = "done"

\* the state an exception leaves when it is raised inside the try block of
\* the entry point: control goes to the except block of lines 177 / 235
Caught(error) ==
    /\ pc' = "except"
    /\ fatal' = error
    /\ UNCHANGED <<result, raised>>

\* a step that returns and hands control to the next position
Goes(position) ==
    /\ pc' = position
    /\ UNCHANGED <<result, raised, fatal>>

\* process_rfp_documents, lines 210-217: construct the RequirementSet.
\* process_rfp_documents_with_progress, lines 64-97: build the progress
\* tracker, send the initial progress event (outside the try block), then
\* construct the RequirementSet
Start ==
    /\ pc = "start"
    /\ \/ /\ entry_point = PLAIN
          /\ created' = TRUE
          /\ Goes("parse")
       \/ /\ entry_point = WITH_PROGRESS
          /\ \E sent \in SendOutcomes :
                IF sent = "ok"
                THEN created' = TRUE /\ Goes("parse")
                ELSE /\ RaiseToCaller(KEY_ERROR)
                     /\ fatal' = KEY_ERROR
                     /\ UNCHANGED created
    /\ UNCHANGED <<other_vars, config_vars, business_requirements,
                   verification_issues, pipeline_stage, iteration_count,
                   status, loop_vars, history_vars, documents_resolved,
                   error_events>>

\* process_rfp_documents, line 220: parse_documents is awaited before the
\* try block, so its ValueError reaches the caller directly.
\* process_rfp_documents_with_progress, lines 99-107: parse_documents and
\* its step events (one before it, two after it) are inside the try block
ParseDocuments ==
    /\ pc = "parse"
    /\ \E parsed \in BOOLEAN, before \in SendOutcomes, after \in SendOutcomes :
          IF entry_point = PLAIN
          THEN IF parsed
               THEN documents_resolved' = TRUE /\ Goes("stage1")
               ELSE /\ RaiseToCaller(VALUE_ERROR)
                    /\ fatal' = VALUE_ERROR
                    /\ UNCHANGED documents_resolved
          ELSE IF before = "KeyError"
               THEN Caught(KEY_ERROR) /\ UNCHANGED documents_resolved
               ELSE IF ~parsed
                    THEN Caught(VALUE_ERROR) /\ UNCHANGED documents_resolved
                    ELSE /\ documents_resolved' = TRUE
                         /\ IF after = "ok" THEN Goes("stage1")
                                            ELSE Caught(KEY_ERROR)
    /\ UNCHANGED <<other_vars, config_vars, created, business_requirements,
                   verification_issues, pipeline_stage, iteration_count,
                   status, loop_vars, history_vars, error_events>>

\* _stage_1_initial_draft and _stage_1_initial_draft_with_progress (with
\* the step events of lines 109-116): generate_initial_draft absorbs every
\* oracle failure, so only a send can raise
Stage1 ==
    /\ pc = "stage1"
    /\ pipeline_stage' = 1
    /\ \E draft \in RequirementLists, sent \in SendOutcomes :
          \/ /\ entry_point = PLAIN \/ sent = "ok"
             /\ business_requirements' = draft
             /\ Goes("stage2")
          \/ /\ entry_point = WITH_PROGRESS /\ sent = "KeyError"
             /\ business_requirements' \in {business_requirements, draft}
             /\ Caught(KEY_ERROR)
    /\ UNCHANGED <<other_vars, config_vars, created, verification_issues,
                   iteration_count, status, loop_vars, history_vars,
                   documents_resolved, error_events>>

\* _stage_2_self_improvement and _stage_2_self_improvement_with_progress
\* (with the step events of lines 118-129): self_improvement_pass returns
\* the oracle's list or, on failure, its input
Stage2 ==
    /\ pc = "stage2"
    /\ \E improved \in RequirementLists, sent \in SendOutcomes :
          \/ /\ entry_point = PLAIN \/ sent = "ok"
             /\ pipeline_stage' = 2
             /\ business_requirements' = improved
             /\ Goes("loop")
          \/ /\ entry_point = WITH_PROGRESS /\ sent = "KeyError"
             /\ \/ UNCHANGED <<pipeline_stage, business_requirements>>
                \/ /\ pipeline_stage' = 2
                   /\ business_requirements' \in
                          {business_requirements, improved}
             /\ Caught(KEY_ERROR)
    /\ UNCHANGED <<other_vars, config_vars, created, verification_issues,
                   iteration_count, status, loop_vars, history_vars,
                   documents_resolved, error_events>>

(***************************************************************************)
(* Stages 3-5: _verification_loop and _verification_loop_with_progress.    *)
(***************************************************************************)

\* passes_after without the reset of line 339: clean passes are counted
\* whether or not they are consecutive
passes_after_no_reset(passes, issues) ==
    IF critical_errors(issues) = <<>> THEN passes + 1 ELSE passes

\* passes_after with the reset of line 339 leaving one pass standing
passes_after_reset_to_one(passes, issues) ==
    IF critical_errors(issues) = <<>> THEN passes + 1 ELSE 1

\* lines 334-339 (492-501): the counter after a verification pass
passes_after(passes, issues) ==
    IF critical_errors(issues) = <<>> THEN passes + 1 ELSE 0

\* lines 334-337 (492-499): the break test, made on the updated counter
loop_breaks(passes, issues, threshold) ==
    /\ critical_errors(issues) = <<>>
    /\ passes >= threshold

\* next_position without the break of lines 336-337: the pass that reaches
\* the threshold still runs stages 4 and 5
next_position_no_break(passes, issues, threshold, review) ==
    IF review THEN "stage4" ELSE "stage5"

\* next_position without the test of lines 342 / 507 on
\* enable_stage_4_review: every pass that goes on runs the review hook
next_position_always_review(passes, issues, threshold, review) ==
    IF loop_breaks(passes, issues, threshold) THEN "stage6" ELSE "stage4"

\* lines 336-349 (498-514): where the pass goes after the counter update,
\* to the return of the loop on a break, else on to stages 4 and 5
next_position(passes, issues, threshold, review) ==
    IF loop_breaks(passes, issues, threshold) THEN "stage6"
    ELSE IF review THEN "stage4" ELSE "stage5"

\* the outcomes of the checks of one pass: found[b] is the issue list of
\* br_id b, empty for a br_id that is not in the list being verified
FoundFor(requirements) ==
    { found \in [BrIds -> SingleRequirementIssues] :
        \A b \in BrIds :
            (\A k \in 1..Len(requirements) : requirements[k] # b)
                => found[b] = <<>> }

\* count_of counting from 2: iteration_count = iteration + 2
count_of_off_by_one(index) == index + 2

\* count_of with the loop index itself: iteration_count = iteration
count_of_index(index) == index

\* line 316 (467): requirement_set.iteration_count = iteration + 1
count_of(index) == index + 1

\* one pass of the loop body up to the break test: lines 315-339 (465-504)
Verify ==
    /\ pc = "loop"
    /\ iteration < max_iterations
    /\ iteration' = iteration + 1
    /\ iteration_count' = count_of(iteration)
    /\ \E found \in FoundFor(business_requirements), sent \in SendOutcomes :
          LET issues == verify_issues(business_requirements, found)
              passes == passes_after(consecutive_passes, issues)
          IN \/ \* the iteration's first step events fail (lines 471-474)
                /\ entry_point = WITH_PROGRESS /\ sent = "KeyError"
                /\ Caught(KEY_ERROR)
                /\ UNCHANGED <<pipeline_stage, verification_issues,
                               consecutive_passes, loop_state, history_vars>>
             \/ \* verify_requirements raises on its coverage metrics
                /\ ~metrics_valid(business_requirements, issues)
                /\ pipeline_stage' = 3
                /\ verified_requirements' = business_requirements
                /\ Caught(VALIDATION_ERROR)
                /\ UNCHANGED <<verification_issues, consecutive_passes,
                               loop_state, last_fail, ever_clean, n_verify>>
             \/ \* verify_requirements returns
                /\ metrics_valid(business_requirements, issues)
                /\ pipeline_stage' = 3
                /\ verification_issues' = issues
                /\ consecutive_passes' = passes
                /\ verified_requirements' = business_requirements
                /\ n_verify' = n_verify + 1
                /\ last_fail' = IF critical_errors(issues) # <<>>
                                THEN iteration + 1 ELSE last_fail
                /\ ever_clean' = (ever_clean \/ critical_errors(issues) = <<>>)
                /\ IF entry_point = WITH_PROGRESS /\ sent = "KeyError"
                   THEN \* the pass's step event fails (line 496 / 504)
                        Caught(KEY_ERROR) /\ UNCHANGED loop_state
                   ELSE /\ Goes(next_position(passes, issues,
                                              acceptance_threshold,
                                              enable_stage_4_review))
                        /\ loop_state' =
                               IF loop_breaks(passes, issues,
                                              acceptance_threshold)
                               THEN "Converged" ELSE "Fixing"
    /\ UNCHANGED <<other_vars, config_vars, created, business_requirements,
                   status, documents_resolved, error_events>>

\* lines 341-346 (506-511): the optional review hook, a no-op
Stage4Review ==
    /\ pc = "stage4"
    /\ pipeline_stage' = 4
    /\ Goes("stage5")
    /\ UNCHANGED <<other_vars, config_vars, created, business_requirements,
                   verification_issues, iteration_count, status, loop_vars,
                   history_vars, documents_resolved, error_events>>

\* range_exhausted one index early: range(max_iterations - 1)
range_exhausted_early(index, maximum) == index + 1 >= maximum

\* range_exhausted never true: while True
range_exhausted_never(index, maximum) == FALSE

\* line 315 (465): range(max_iterations) has no further index
range_exhausted(index, maximum) == index >= maximum

\* lines 348-357 (513-522): the fix step, then the loop header again; the
\* loop falls through to its return when the range is exhausted
Stage5 ==
    /\ pc = "stage5"
    /\ pipeline_stage' = 5
    /\ \E llm_fails \in SUBSET BrIds :
          business_requirements' =
              IF verification_issues # <<>>
              THEN fix_verification_issues(business_requirements,
                                           verification_issues, llm_fails)
              ELSE business_requirements
    /\ IF range_exhausted(iteration, max_iterations)
       THEN Goes("stage6") /\ loop_state' = "Exhausted"
       ELSE Goes("loop") /\ loop_state' = "Verifying"
    /\ UNCHANGED <<other_vars, config_vars, created, verification_issues,
                   iteration_count, status, iteration, consecutive_passes,
                   history_vars, documents_resolved, error_events>>

(***************************************************************************)
(* Stage 6 and the end of the run.                                         *)
(***************************************************************************)

\* final_status without the critical-error test: always accepted
final_status_always_accepted(issues) == "accepted"

\* _stage_6_final_decision, lines 371-380
final_status(issues) ==
    IF critical_errors(issues) = <<>> THEN "accepted" ELSE "rejected"

\* _stage_6_final_decision; process_rfp_documents returns right after it
\* (line 241), process_rfp_documents_with_progress first sends the step
\* events of lines 133-138, which can raise before the decision
Stage6 ==
    /\ pc = "stage6"
    /\ \E sent \in SendOutcomes :
          \/ /\ entry_point = PLAIN
             /\ pipeline_stage' = 6
             /\ status' = final_status(verification_issues)
             /\ result' = "returned"
             /\ pc' = "done"
             /\ UNCHANGED <<fatal, raised>>
          \/ /\ entry_point = WITH_PROGRESS /\ sent = "ok"
             /\ pipeline_stage' = 6
             /\ status' = final_status(verification_issues)
             /\ Goes("save")
          \/ /\ entry_point = WITH_PROGRESS /\ sent = "KeyError"
             /\ Caught(KEY_ERROR)
             /\ UNCHANGED <<pipeline_stage, status>>
    /\ UNCHANGED <<other_vars, config_vars, created, business_requirements,
                   verification_issues, iteration_count, loop_vars,
                   history_vars, documents_resolved, error_events>>

\* lines 142-153: the stage-6 and completion step events and
\* _save_results_to_file, which re-raises the error of mkdir / open
SaveResults ==
    /\ pc = "save"
    /\ \E saved \in BOOLEAN, sent \in SendOutcomes :
          IF sent = "KeyError" THEN Caught(KEY_ERROR)
          ELSE IF ~saved THEN Caught(OS_ERROR)
          ELSE Goes("completion")
    /\ UNCHANGED <<other_vars, config_vars, created, business_requirements,
                   verification_issues, pipeline_stage, iteration_count,
                   status, loop_vars, history_vars, documents_resolved,
                   error_events>>

\* lines 155-175: the final events, then return requirement_set
Completion ==
    /\ pc = "completion"
    /\ \E sent \in SendOutcomes :
          IF sent = "ok"
          THEN /\ result' = "returned"
               /\ pc' = "done"
               /\ UNCHANGED <<fatal, raised>>
          ELSE Caught(KEY_ERROR)
    /\ UNCHANGED <<other_vars, config_vars, created, business_requirements,
                   verification_issues, pipeline_stage, iteration_count,
                   status, loop_vars, history_vars, documents_resolved,
                   error_events>>

\* the status both except blocks assign (lines 189 and 236)
handler_status(current) == "error"

\* lines 180-188: the except block of the session run hands one error
\* event to the hub; the except block of the plain run sends nothing
events_after(events) ==
    IF entry_point = WITH_PROGRESS THEN events + 1 ELSE events

\* process_rfp_documents, lines 235-239: set status, re-raise.
\* process_rfp_documents_with_progress, lines 177-191: send the error
\* event, then set status and re-raise; when that send raises, its error
\* leaves the handler before the status is assigned
ExceptHandler ==
    /\ pc = "except"
    /\ error_events' = events_after(error_events)
    /\ \E sent \in SendOutcomes :
          \/ /\ entry_point = PLAIN \/ sent = "ok"
             /\ status' = handler_status(status)
             /\ RaiseToCaller(fatal)
          \/ /\ entry_point = WITH_PROGRESS /\ sent = "KeyError"
             /\ UNCHANGED status
             /\ RaiseToCaller(KEY_ERROR)
    /\ UNCHANGED <<other_vars, config_vars, created, business_requirements,
                   verification_issues, pipeline_stage, iteration_count,
                   loop_vars, history_vars, documents_resolved, fatal>>

Next ==
    \/ Start
    \/ ParseDocuments
    \/ Stage1
    \/ Stage2
    \/ Verify
    \/ Stage4Review
    \/ Stage5
    \/ Stage6
    \/ SaveResults
    \/ Completion
    \/ ExceptHandler

Spec == Init /\ [][Next]_vars

\* every step of a run is a call that returns or fails (the oracle, the
\* document source, the hub), so a run that can take a step takes it
FairSpec == Spec /\ WF_vars(Next)

TypeOK ==
    /\ entry_point \in EntryPoints
    /\ max_iterations \in MAX_ITERATIONS_GE..MAX_ITERATIONS_LE
    /\ acceptance_threshold \in ACCEPTANCE_THRESHOLD_GE..ACCEPTANCE_THRESHOLD_LE
    /\ pc \in {"start", "parse", "stage1", "stage2", "loop", "stage4",
               "stage5", "stage6", "save", "completion", "except", "done"}
    /\ business_requirements \in RequirementLists
    /\ pipeline_stage \in 1..6
    /\ status \in {"in_progress", "accepted", "rejected", "error"}
    /\ loop_state \in {"NotStarted", "Verifying", "Fixing", "Converged",
                       "Exhausted"}
    /\ result \in {"running", "returned", "raised"}

(***************************************************************************)
(* The drafting adapter (AnalyzerService): its three operations as         *)
(* functions of their arguments and of the outcomes of their oracle calls. *)
(***************************************************************************)

\* longest requirement list handed to an adapter call
MaxList == 2

\* the file names a document map can hold
DocumentNames == {"rfp.pdf", "annex.pdf"}

\* what call_llm / call_llm_json hands its caller: the reply, or the
\* exception of a failure (transient with the retries used up, an
\* authentication error, an empty or non-JSON reply)
REPLY == "reply"
TRANSIENT == "transient"
AUTHENTICATION == "authentication"
MALFORMED == "malformed"
OracleFailures == {TRANSIENT, AUTHENTICATION, MALFORMED}
OracleOutcomes == {REPLY} \cup OracleFailures

\* the lists of distinct elements of S, in every order
ListsOf(S) ==
    { list \in UNION { [1..n -> S] : n \in 0..Cardinality(S) } :
        \A i, j \in DOMAIN list : i # j => list[i] # list[j] }

\* Dict[str, str] as the list of its keys, in insertion order
DocumentMaps == ListsOf(DocumentNames)

\* br_id of the "Sample Requirement (LLM Failed)" of lines 141-158
PLACEHOLDER == 0

\* requirement lists as an adapter receives them
AdapterLists == ListsOf(1..MaxList)

\* a parsed oracle reply as stages 1 and 2 read it: with
\* data.requirements, without it, or with a data that is no mapping
\* (the 'in' test of lines 89 / 205 then raises a TypeError)
ReplyShapes == {"requirements", "no_requirements", "not_a_mapping"}
Replies ==
    [shape : ReplyShapes, requirements : AdapterLists, hypotheses : 0..1]

\* AnalyzerService.generate_initial_draft: the reply's requirements and
\* hypotheses, or the fallback of lines 134-164 for every exception
generate_initial_draft(documents, oracle, reply) ==
    IF oracle = REPLY /\ reply.shape # "not_a_mapping"
    THEN [raised |-> NONE,
          requirements |-> IF reply.shape = "requirements"
                           THEN reply.requirements ELSE <<>>,
          hypotheses |-> reply.hypotheses]
    ELSE [raised |-> NONE,
          requirements |-> IF documents # <<>>
                           THEN <<PLACEHOLDER>> ELSE <<>>,
          hypotheses |-> 0]

\* self_improvement_pass with a fallback that returns no requirement
self_improvement_pass_drops_on_failure(current, oracle, reply) ==
    IF oracle = REPLY /\ reply.shape # "not_a_mapping"
    THEN [raised |-> NONE,
          requirements |-> IF reply.shape = "requirements"
                           THEN reply.requirements ELSE current]
    ELSE [raised |-> NONE, requirements |-> <<>>]

\* AnalyzerService.self_improvement_pass: the reply's requirements when
\* it has some, else (and for every exception, lines 220-226) the input
self_improvement_pass(current, oracle, reply) ==
    IF oracle = REPLY /\ reply.shape # "not_a_mapping"
    THEN [raised |-> NONE,
          requirements |-> IF reply.shape = "requirements"
                           THEN reply.requirements ELSE current]
    ELSE [raised |-> NONE, requirements |-> current]

\* the calls of the three operations
DraftCalls ==
    [op : {"draft"}, documents : DocumentMaps, oracle : OracleOutcomes,
     reply : Replies]
ImproveCalls ==
    [op : {"improve"}, requirements : AdapterLists, oracle : OracleOutcomes,
     reply : Replies]
FixCalls ==
    { [op |-> "fix", requirements |-> requirements,
       issues |-> verify_issues(requirements, found), llm_fails |-> fails] :
      requirements \in AdapterLists,
      found \in [1..MaxList -> SingleRequirementIssues],
      fails \in SUBSET (1..MaxList) }

AdapterCalls == DraftCalls \cup ImproveCalls \cup FixCalls

\* the variables an adapter call leaves alone
beside_adapter == <<run_vars, llm_vars, hub_vars, tracker_vars,
                      twin_vars>>

\* stage 1: await self.analyzer.generate_initial_draft(documents)
Draft ==
    /\ adapter_in.op = "draft"
    /\ adapter_out = PENDING
    /\ adapter_out' = generate_initial_draft(adapter_in.documents,
                                              adapter_in.oracle,
                                              adapter_in.reply)
    /\ UNCHANGED <<adapter_in, beside_adapter>>

\* stage 2: await self.analyzer.self_improvement_pass(...)
Improve ==
    /\ adapter_in.op = "improve"
    /\ adapter_out = PENDING
    /\ adapter_out' = self_improvement_pass(adapter_in.requirements,
                                             adapter_in.oracle,
                                             adapter_in.reply)
    /\ UNCHANGED <<adapter_in, beside_adapter>>

\* stage 5: await self.analyzer.fix_verification_issues(...)
Fix ==
    /\ adapter_in.op = "fix"
    /\ adapter_out = PENDING
    /\ adapter_out' =
           [raised |-> NONE,
            requirements |-> fix_verification_issues(adapter_in.requirements,
                                                     adapter_in.issues,
                                                     adapter_in.llm_fails)]
    /\ UNCHANGED <<adapter_in, beside_adapter>>

\* the run's variables while an adapter call is looked at on its own: a
\* plain run with the default configuration that has not started
RunIdle ==
    /\ RunInit
    /\ entry_point = PLAIN
    /\ max_iterations = 5
    /\ acceptance_threshold = 3
    /\ enable_stage_4_review = TRUE

AdapterInit ==
    /\ RunIdle
    /\ TwinIdle
    /\ LlmIdle
    /\ HubIdle
    /\ TrackerIdle
    /\ adapter_in \in AdapterCalls
    /\ adapter_out = PENDING

AdapterNext ==
    \/ Draft
    \/ Improve
    \/ Fix

AdapterSpec == AdapterInit /\ [][AdapterNext]_vars

(***************************************************************************)
(* The verifying adapter (VerifierService): the five sub-checks of one     *)
(* requirement as functions of the requirement, of the document map and    *)
(* of the outcomes of the three oracle calls.                              *)
(***************************************************************************)

\* most citations of one requirement
MaxCitations == 2

\* a citation against the document map: is location.document a key of
\* the map, does citation.text occur in that document, is
\* location.line_number negative
Citations ==
    { c \in [document_known : BOOLEAN, text_found : BOOLEAN,
             line_negative : BOOLEAN] :
        ~c.document_known => (~c.text_found /\ ~c.line_negative) }

CitationLists == UNION { [1..n -> Citations] : n \in 0..MaxCitations }

\* a description as the checks read it: empty or not, with digits or not,
\* its number of ' and ' and of the modal verbs must/should/shall/will
Descriptions ==
    { d \in [empty : BOOLEAN, numbers : BOOLEAN, and_count : 2..3,
             modal_count : 1..2] :
        d.empty => (~d.numbers /\ d.and_count = 2 /\ d.modal_count = 1) }

Requirements ==
    [citations : CitationLists, title_empty : BOOLEAN,
     description : Descriptions, stakeholders_empty : BOOLEAN]

\* the outcome of the oracle call of a sub-check: the call failed, or
\* the severities of the issues its reply lists
FAILED == "failed"
SemanticOutcomes == {FAILED, <<>>, <<"low">>, <<"critical">>}
AtomicityOutcomes == {FAILED, <<>>, <<"medium">>}
NumericalOutcomes == {FAILED, <<>>, <<"medium">>, <<"critical">>}

\* VerificationIssue(error_type=..., description=...) of a sub-check
Issue(error_type, check, what) ==
    [error_type |-> error_type, check |-> check, what |-> what]

\* lines 114-150: the issues of one citation
citation_issues(citation) ==
    IF ~citation.document_known
    THEN <<Issue(CRITICAL_ERROR, "traceability", "document_missing")>>
    ELSE (IF ~citation.text_found
          THEN <<Issue(CRITICAL_ERROR, "traceability", "text_not_found")>>
          ELSE <<>>)
         \o (IF citation.line_negative
             THEN <<Issue(JUSTIFICATION_GAP, "traceability",
                          "invalid_line_number")>>
             ELSE <<>>)

RECURSIVE verify_traceability(_)
\* VerifierService._verify_traceability
verify_traceability(citations) ==
    IF citations = <<>> THEN <<>>
    ELSE citation_issues(Head(citations))
         \o verify_traceability(Tail(citations))

\* verify_semantic_consistency with the citation test of lines 165-174
\* moved into the try block, after the oracle call
verify_semantic_consistency_test_after_call(requirement, oracle) ==
    IF oracle = FAILED THEN <<>>
    ELSE IF requirement.citations = <<>>
    THEN <<Issue(CRITICAL_ERROR, "semantic", "no_citations")>>
    ELSE [k \in DOMAIN oracle |->
            Issue(IF oracle[k] # "critical" THEN JUSTIFICATION_GAP
                  ELSE CRITICAL_ERROR, "semantic", "oracle")]

\* VerifierService._verify_semantic_consistency
verify_semantic_consistency(requirement, oracle) ==
    IF requirement.citations = <<>>
    THEN <<Issue(CRITICAL_ERROR, "semantic", "no_citations")>>
    ELSE IF oracle = FAILED THEN <<>>
    ELSE [k \in DOMAIN oracle |->
            Issue(IF oracle[k] # "critical" THEN JUSTIFICATION_GAP
                  ELSE CRITICAL_ERROR, "semantic", "oracle")]

\* VerifierService._verify_atomicity: the oracle's issues, or, when the
\* call fails, the heuristics of lines 246-271 on the description
verify_atomicity(requirement, oracle) ==
    IF oracle # FAILED
    THEN [k \in DOMAIN oracle |->
            Issue(JUSTIFICATION_GAP, "atomicity", "oracle")]
    ELSE (IF ~requirement.description.empty
             /\ requirement.description.and_count > 2
          THEN <<Issue(JUSTIFICATION_GAP, "atomicity", "compound")>>
          ELSE <<>>)
         \o (IF ~requirement.description.empty
                /\ requirement.description.modal_count > 1
             THEN <<Issue(JUSTIFICATION_GAP, "atomicity", "modal_verbs")>>
             ELSE <<>>)

\* verify_numerical_accuracy failing closed: a failed call is reported as
\* a critical error
verify_numerical_accuracy_fails_closed(requirement, oracle) ==
    IF ~requirement.description.numbers THEN <<>>
    ELSE IF oracle = FAILED
    THEN <<Issue(CRITICAL_ERROR, "numerical", "oracle")>>
    ELSE [k \in DOMAIN oracle |->
            Issue(IF oracle[k] = "critical" THEN CRITICAL_ERROR
                  ELSE JUSTIFICATION_GAP, "numerical", "oracle")]

\* VerifierService._verify_numerical_accuracy
verify_numerical_accuracy(requirement, oracle) ==
    IF ~requirement.description.numbers THEN <<>>
    ELSE IF oracle = FAILED THEN <<>>
    ELSE [k \in DOMAIN oracle |->
            Issue(IF oracle[k] = "critical" THEN CRITICAL_ERROR
                  ELSE JUSTIFICATION_GAP, "numerical", "oracle")]

\* VerifierService._verify_schema_compliance
verify_schema_compliance(requirement) ==
    (IF requirement.title_empty
     THEN <<Issue(JUSTIFICATION_GAP, "schema", "missing_title")>>
     ELSE <<>>)
    \o (IF requirement.description.empty
        THEN <<Issue(CRITICAL_ERROR, "schema", "missing_description")>>
        ELSE <<>>)
    \o (IF requirement.stakeholders_empty
        THEN <<Issue(JUSTIFICATION_GAP, "schema", "no_stakeholders")>>
        ELSE <<>>)

\* VerifierService._verify_single_requirement
verify_single_requirement(requirement, semantic, atomicity, numerical) ==
    verify_traceability(requirement.citations)
    \o verify_semantic_consistency(requirement, semantic)
    \o verify_atomicity(requirement, atomicity)
    \o verify_numerical_accuracy(requirement, numerical)
    \o verify_schema_compliance(requirement)

VerifyCalls ==
    [op : {"verify"}, requirement : Requirements,
     semantic : SemanticOutcomes, atomicity : AtomicityOutcomes,
     numerical : NumericalOutcomes]

\* verify_requirements, line 55: the checks of one requirement
VerifySingle ==
    /\ adapter_in.op = "verify"
    /\ adapter_out = PENDING
    /\ adapter_out' =
           [raised |-> NONE,
            issues |-> verify_single_requirement(adapter_in.requirement,
                                                 adapter_in.semantic,
                                                 adapter_in.atomicity,
                                                 adapter_in.numerical)]
    /\ UNCHANGED <<adapter_in, beside_adapter>>

VerifierInit ==
    /\ RunIdle
    /\ TwinIdle
    /\ LlmIdle
    /\ HubIdle
    /\ TrackerIdle
    /\ adapter_in \in VerifyCalls
    /\ adapter_out = PENDING

VerifierNext == VerifySingle

VerifierSpec == VerifierInit /\ [][VerifierNext]_vars

(***************************************************************************)
(* The oracle call (LLMService): call_llm / call_llm_json around the       *)
(* retry loop of _call_with_retry.                                         *)
(***************************************************************************)

\* _call_with_retry(self, request_params, max_retries: int = 3)
MAX_RETRIES == 3

\* the kinds of text an API response carries
Contents == {"json", "empty", "not_json"}

\* line 103: delay = (2 ** attempt) + (0.1 * attempt), in tenths of a
\* second
backoff_delay(index) == 10 * (2 ^ index) + index

\* a loop that gives up one attempt later
gives_up_one_late(index, kind) == index = MAX_RETRIES + 1

\* line 99: if attempt == max_retries: raise e, whatever the error is
gives_up(index, kind) == index = MAX_RETRIES

\* the variables an oracle call leaves alone
beside_llm == <<run_vars, adapter_vars, hub_vars, tracker_vars,
                  twin_vars>>

\* lines 49-50: without a client the call raises before any attempt
CallLlm ==
    /\ llm_pc = "start"
    /\ IF configured
       THEN llm_pc' = "attempt" /\ UNCHANGED failures
       ELSE llm_pc' = "raised" /\ failures' = <<AUTHENTICATION>>
    /\ UNCHANGED <<configured, json_mode, attempt, slept, beside_llm>>

\* lines 93-100: one attempt of the loop: the API answers, or raises an
\* error of either kind, which ends the call only on the last attempt
AttemptCall ==
    /\ llm_pc = "attempt"
    /\ \/ \E content \in Contents :
             /\ llm_pc' = content
             /\ UNCHANGED failures
       \/ \E kind \in {TRANSIENT, AUTHENTICATION} :
             /\ failures' = Append(failures, kind)
             /\ llm_pc' = IF gives_up(attempt, kind) THEN "raised"
                                                     ELSE "sleep"
    /\ UNCHANGED <<configured, json_mode, attempt, slept, beside_llm>>

\* lines 102-105: sleep the backoff delay, then the next attempt
Backoff ==
    /\ llm_pc = "sleep"
    /\ slept' = Append(slept, backoff_delay(attempt))
    /\ attempt' = attempt + 1
    /\ llm_pc' = "attempt"
    /\ UNCHANGED <<configured, json_mode, failures, beside_llm>>

\* lines 79-88 and 140-144: an empty content raises in call_llm, a text
\* that is no JSON raises in call_llm_json; neither is tried again
ReadReply ==
    /\ llm_pc \in Contents
    /\ IF llm_pc = "empty" \/ (json_mode /\ llm_pc = "not_json")
       THEN llm_pc' = "raised" /\ failures' = Append(failures, MALFORMED)
       ELSE llm_pc' = "returned" /\ UNCHANGED failures
    /\ UNCHANGED <<configured, json_mode, attempt, slept, beside_llm>>

LlmInit ==
    /\ RunIdle
    /\ TwinIdle
    /\ AdapterIdle
    /\ HubIdle
    /\ TrackerIdle
    /\ configured \in BOOLEAN
    /\ json_mode \in BOOLEAN
    /\ llm_pc = "start"
    /\ attempt = 0
    /\ failures = <<>>
    /\ slept = <<>>

LlmNext ==
    \/ CallLlm
    \/ AttemptCall
    \/ Backoff
    \/ ReadReply

LlmSpec == LlmInit /\ [][LlmNext]_vars

(***************************************************************************)
(* The event hub (WebSocketManager). Its coroutines interleave at their    *)
(* awaits only: a block under self._lock holds no await, so it is one      *)
(* step, and send_update is suspended once per awaited send_text.          *)
(***************************************************************************)

\* the variables a hub operation leaves alone
beside_hub == <<run_vars, adapter_vars, llm_vars, tracker_vars,
                  twin_vars>>

\* session_id in self.active_connections
registered(connections, session_id) == session_id \in DOMAIN connections

\* the update without the del of lines 35-36 and 63-64
with_entry_kept_when_empty(connections, session_id, members) ==
    [s \in DOMAIN connections \cup {session_id} |->
        IF s = session_id THEN members ELSE connections[s]]

\* self.active_connections[session_id] = members, and del of the entry
\* when members is empty (lines 35-36 and 63-64)
with_entry(connections, session_id, members) ==
    IF members = {}
    THEN [s \in DOMAIN connections \ {session_id} |-> connections[s]]
    ELSE [s \in DOMAIN connections \cup {session_id} |->
             IF s = session_id THEN members ELSE connections[s]]

\* connect, lines 21-26, called by websocket_endpoint for a new websocket
Connect(websocket, session_id) ==
    /\ endpoint[websocket] = "new"
    /\ active_connections' =
           with_entry(active_connections, session_id,
                      (IF registered(active_connections, session_id)
                       THEN active_connections[session_id] ELSE {})
                      \cup {websocket})
    /\ endpoint' = [endpoint EXCEPT ![websocket] = session_id]
    /\ UNCHANGED <<sends, broadcast, beside_hub>>

\* disconnect, lines 32-36, called by websocket_endpoint when its
\* websocket raised WebSocketDisconnect
Disconnect(websocket) ==
    /\ endpoint[websocket] \in Sessions
    /\ LET session_id == endpoint[websocket]
       IN active_connections' =
              IF registered(active_connections, session_id)
              THEN with_entry(active_connections, session_id,
                              active_connections[session_id] \ {websocket})
              ELSE active_connections
    /\ endpoint' = [endpoint EXCEPT ![websocket] = "gone"]
    /\ UNCHANGED <<sends, broadcast, beside_hub>>

\* send_update without the test of lines 42-43: the copy of line 51 indexes
\* a missing entry
called_unguarded(connections, session_id) ==
    IF ~registered(connections, session_id)
    THEN [NotCalled EXCEPT !.pc = KEY_ERROR, !.session_id = session_id]
    ELSE [NotCalled EXCEPT !.pc = "sending",
                           !.session_id = session_id,
                           !.snapshot = connections[session_id],
                           !.remaining = connections[session_id]]

\* send_update copying the subscribers of every session at line 51
called_every_session(connections, session_id) ==
    IF ~registered(connections, session_id)
    THEN [NotCalled EXCEPT !.pc = "returned", !.session_id = session_id]
    ELSE [NotCalled EXCEPT
             !.pc = "sending",
             !.session_id = session_id,
             !.snapshot = UNION {connections[s] : s \in DOMAIN connections},
             !.remaining = UNION {connections[s] : s \in DOMAIN connections}]

\* send_update, lines 42-51: the call returns when the session has no
\* entry, else it copies the session's set
called(connections, session_id) ==
    IF ~registered(connections, session_id)
    THEN [NotCalled EXCEPT !.pc = "returned", !.session_id = session_id]
    ELSE [NotCalled EXCEPT !.pc = "sending",
                           !.session_id = session_id,
                           !.snapshot = connections[session_id],
                           !.remaining = connections[session_id]]

\* send_update, lines 42-53: return when the session has no entry, else
\* copy its set and await the first send_text
SendUpdate(p, session_id) ==
    /\ sends[p].pc = "idle"
    /\ sends' = [sends EXCEPT ![p] = called(active_connections, session_id)]
    /\ UNCHANGED <<active_connections, endpoint, broadcast, beside_hub>>

\* a loop that does not move on to the next websocket of the copy
after_send_text_not_consumed(call, websocket, sent) ==
    [call EXCEPT !.delivered = IF sent THEN @ \cup {websocket} ELSE @,
                 !.connections_to_remove =
                     IF sent THEN @ ELSE @ \cup {websocket}]

\* lines 51-56: the awaited send_text returns or raises
after_send_text(call, websocket, sent) ==
    [call EXCEPT !.remaining = @ \ {websocket},
                 !.delivered = IF sent THEN @ \cup {websocket} ELSE @,
                 !.connections_to_remove =
                     IF sent THEN @ ELSE @ \cup {websocket}]

\* lines 51-56: an awaited send_text completes and the loop awaits the
\* send_text of the next websocket of the copy
SendText(p) ==
    /\ sends[p].pc = "sending"
    /\ \E websocket \in sends[p].remaining, sent \in BOOLEAN :
          /\ sends[p].remaining # {websocket}
          /\ sends' = [sends EXCEPT ![p] = after_send_text(@, websocket, sent)]
    /\ UNCHANGED <<active_connections, endpoint, broadcast, beside_hub>>

\* lines 51-64: the last awaited send_text completes and the cleanup
\* block runs: self.active_connections[session_id] raises KeyError when
\* the entry was deleted while the call was suspended
CleanUp(p) ==
    /\ sends[p].pc = "sending"
    /\ \E websocket \in sends[p].remaining, sent \in BOOLEAN :
          /\ sends[p].remaining = {websocket}
          /\ LET call == after_send_text(sends[p], websocket, sent)
                 session_id == call.session_id
             IN IF registered(active_connections, session_id)
                THEN /\ active_connections' =
                            with_entry(active_connections, session_id,
                                       active_connections[session_id]
                                           \ call.connections_to_remove)
                     /\ sends' = [sends EXCEPT ![p] =
                                     [call EXCEPT !.pc = "returned"]]
                ELSE /\ sends' = [sends EXCEPT ![p] =
                                     [call EXCEPT !.pc = KEY_ERROR]]
                     /\ UNCHANGED active_connections
    /\ UNCHANGED <<endpoint, broadcast, beside_hub>>

HubInit ==
    /\ RunIdle
    /\ TwinIdle
    /\ AdapterIdle
    /\ LlmIdle
    /\ HubIdle
    /\ TrackerIdle

HubNext ==
    \/ \E websocket \in Sockets, session_id \in Sessions :
          Connect(websocket, session_id)
    \/ \E websocket \in Sockets : Disconnect(websocket)
    \/ \E p \in Senders, session_id \in Sessions : SendUpdate(p, session_id)
    \/ \E p \in Senders : SendText(p)
    \/ \E p \in Senders : CleanUp(p)

HubSpec == HubInit /\ [][HubNext]_vars

(***************************************************************************)
(* broadcast_to_all: the keys are listed once, then send_update is awaited *)
(* for each in turn. A send_update that returns at line 43 does not        *)
(* suspend, so the turns of sessions that have no entry pass in the same   *)
(* step as the cleanup before them.                                        *)
(***************************************************************************)

\* the elements of a list
elements(list) == {list[i] : i \in 1..Len(list)}

\* list(self.active_connections.keys()), line 82: every key once, in the
\* order of insertion (any order, the registry keeps none here)
key_lists(connections) ==
    {keys \in UNION {[1..n -> Sessions] : n \in 0..Cardinality(Sessions)} :
        /\ Len(keys) = Cardinality(DOMAIN connections)
        /\ elements(keys) = DOMAIN connections}

RECURSIVE next_turn(_, _)
\* lines 82-83 with 42-43: the rest of the list from the first session
\* that still has an entry
next_turn(connections, keys) ==
    IF keys = << >> THEN << >>
    ELSE IF registered(connections, Head(keys)) THEN keys
    ELSE next_turn(connections, Tail(keys))

\* lines 82-83: the loop goes on over the keys left, with the registry as
\* it is now, up to the next await of a send_text or to the end
turns_on(call, connections, keys) ==
    LET rest == next_turn(connections, keys)
    IN  IF rest = << >>
        THEN [call EXCEPT !.pc = "returned",
                          !.todo = << >>,
                          !.skipped = @ \cup elements(keys)]
        ELSE [call EXCEPT !.pc = "sending",
                          !.todo = Tail(rest),
                          !.call = called(connections, Head(rest)),
                          !.served = @ \cup {Head(rest)},
                          !.skipped = @ \cup (elements(keys) \ elements(rest))]

\* broadcast_to_all, lines 82-83, up to the first awaited send_text
BroadcastToAll ==
    /\ broadcast.pc = "idle"
    /\ \E keys \in key_lists(active_connections) :
          broadcast' = turns_on([NoBroadcast EXCEPT !.keys = keys],
                                active_connections, keys)
    /\ UNCHANGED <<active_connections, endpoint, sends, beside_hub>>

\* lines 51-56 within the broadcast: an awaited send_text completes and
\* the send_text of the next websocket of the copy is awaited
BroadcastSendText ==
    /\ broadcast.pc = "sending"
    /\ \E websocket \in broadcast.call.remaining, sent \in BOOLEAN :
          /\ broadcast.call.remaining # {websocket}
          /\ broadcast' = [broadcast EXCEPT
                              !.call = after_send_text(@, websocket, sent)]
    /\ UNCHANGED <<active_connections, endpoint, sends, beside_hub>>

\* lines 51-64 within the broadcast, then 82-83: the last send_text of a
\* session completes and its cleanup runs; a KeyError of the cleanup
\* leaves broadcast_to_all, else the loop goes on
BroadcastCleanUp ==
    /\ broadcast.pc = "sending"
    /\ \E websocket \in broadcast.call.remaining, sent \in BOOLEAN :
          /\ broadcast.call.remaining = {websocket}
          /\ LET call == after_send_text(broadcast.call, websocket, sent)
                 session_id == call.session_id
                 cleaned == with_entry(active_connections, session_id,
                                       active_connections[session_id]
                                           \ call.connections_to_remove)
             IN IF registered(active_connections, session_id)
                THEN /\ active_connections' = cleaned
                     /\ broadcast' =
                            turns_on([broadcast EXCEPT
                                         !.call = [call EXCEPT
                                                      !.pc = "returned"]],
                                     cleaned, broadcast.todo)
                ELSE /\ broadcast' =
                            [broadcast EXCEPT
                                !.pc = KEY_ERROR,
                                !.call = [call EXCEPT !.pc = KEY_ERROR]]
                     /\ UNCHANGED active_connections
    /\ UNCHANGED <<endpoint, sends, beside_hub>>

BroadcastInit == HubInit

BroadcastNext ==
    \/ \E websocket \in Sockets, session_id \in Sessions :
          Connect(websocket, session_id)
    \/ \E websocket \in Sockets : Disconnect(websocket)
    \/ BroadcastToAll
    \/ BroadcastSendText
    \/ BroadcastCleanUp

BroadcastSpec == BroadcastInit /\ [][BroadcastNext]_vars

(***************************************************************************)
(* The progress tracker (PipelineProgress). The elif of line 86 of         *)
(* models/progress.py follows a for statement; it is read as the else      *)
(* clause of that for with the test inside it. Reading it as a branch of   *)
(* the if inside the loop, or as an if after the loop, gives the same      *)
(* function: all steps completed excludes a step in progress.              *)
(***************************************************************************)

\* steps of a tracker looked at on its own, and the percents given to it
\* (progress_percent is an int that nothing keeps within 0..100)
MaxSteps == 2
Percents == {0, 55, 250}

\* the variables a tracker operation leaves alone
beside_tracker == <<run_vars, adapter_vars, llm_vars, hub_vars,
                      twin_vars>>

RECURSIVE total_percent(_)
\* line 78: sum(step.progress_percent for step in self.steps)
total_percent(steps) ==
    IF steps = << >> THEN 0
    ELSE Head(steps).progress_percent + total_percent(Tail(steps))

\* the positions of the steps that are in progress
in_progress_steps(steps) ==
    {i \in DOMAIN steps : steps[i].status = IN_PROGRESS}

\* the least number of a non-empty set of numbers
least(numbers) == CHOOSE n \in numbers : \A m \in numbers : n <= m

\* all(step.status == ProgressStatus.COMPLETED for step in self.steps)
all_completed(steps) == \A i \in DOMAIN steps : steps[i].status = COMPLETED

\* an overall progress that rounds the mean up
calculate_overall_progress_rounded_up(tracker) ==
    IF tracker.steps = << >>
    THEN [tracker EXCEPT !.overall_progress = 0]
    ELSE LET mean == (total_percent(tracker.steps) + Len(tracker.steps) - 1)
                         \div Len(tracker.steps)
             running == in_progress_steps(tracker.steps)
             over == running = {} /\ all_completed(tracker.steps)
         IN  [tracker EXCEPT
                 !.overall_progress = IF mean > 100 THEN 100 ELSE mean,
                 !.current_step = IF running # {} THEN least(running)
                                  ELSE IF over THEN Len(tracker.steps)
                                  ELSE @,
                 !.status = IF over THEN COMPLETED ELSE @]

\* _calculate_overall_progress, lines 72-88: min(100, total // len), then
\* current_step is the first step in progress (i + 1 for the 0-based i),
\* or the last step when the loop found none and all are completed
calculate_overall_progress(tracker) ==
    IF tracker.steps = << >>
    THEN [tracker EXCEPT !.overall_progress = 0]
    ELSE LET mean == total_percent(tracker.steps) \div Len(tracker.steps)
             running == in_progress_steps(tracker.steps)
             over == running = {} /\ all_completed(tracker.steps)
         IN  [tracker EXCEPT
                 !.overall_progress = IF mean > 100 THEN 100 ELSE mean,
                 !.current_step = IF running # {} THEN least(running)
                                  ELSE IF over THEN Len(tracker.steps)
                                  ELSE @,
                 !.status = IF over THEN COMPLETED ELSE @]

\* lines 49-66: the first step with the step_id (0: none)
step_named(steps, step_id) ==
    LET named == {i \in DOMAIN steps : steps[i].step_id = step_id}
    IN  IF named = {} THEN 0 ELSE least(named)

\* update_step that updates the first step when no step has the step_id
with_step_or_first(steps, step_id, new_status, progress_percent) ==
    LET found == step_named(steps, step_id)
        k == IF found = 0 /\ steps # << >> THEN 1 ELSE found
    IN  [i \in DOMAIN steps |->
            IF i = k
            THEN [steps[i] EXCEPT
                     !.status = new_status,
                     !.progress_percent =
                         IF progress_percent = NO_PERCENT THEN @
                         ELSE progress_percent]
            ELSE steps[i]]

\* lines 49-66: the step with the step_id gets the status, and the
\* percent when one is given
with_step(steps, step_id, new_status, progress_percent) ==
    LET k == step_named(steps, step_id)
    IN  [i \in DOMAIN steps |->
            IF i = k
            THEN [steps[i] EXCEPT
                     !.status = new_status,
                     !.progress_percent =
                         IF progress_percent = NO_PERCENT THEN @
                         ELSE progress_percent]
            ELSE steps[i]]

\* PipelineProgress.update_step, lines 45-70
update_step(tracker, step_id, new_status, progress_percent) ==
    calculate_overall_progress(
        [tracker EXCEPT
            !.steps = with_step(@, step_id, new_status, progress_percent)])

\* an update_step call on a tracker, with any arguments
UpdateStep(step_id, new_status, progress_percent) ==
    /\ progress' = update_step(progress, step_id, new_status, progress_percent)
    /\ updated' = step_id
    /\ UNCHANGED <<session, event, beside_tracker>>

TrackerInit ==
    /\ RunIdle
    /\ TwinIdle
    /\ AdapterIdle
    /\ LlmIdle
    /\ HubIdle
    /\ \E n \in 0..MaxSteps : progress = PipelineProgress(n)
    /\ updated = NotUpdated
    /\ session = NoSession
    /\ event = NoEvent

TrackerNext ==
    \E step_id \in {StepIds[i] : i \in 1..MaxSteps} \cup {"unknown"},
       new_status \in ProgressStatus,
       progress_percent \in Percents \cup {NO_PERCENT} :
        UpdateStep(step_id, new_status, progress_percent)

TrackerSpec == TrackerInit /\ [][TrackerNext]_vars

(***************************************************************************)
(* The progress events of a session run                                    *)
(* (process_rfp_documents_with_progress). The statements that touch the    *)
(* tracker or the hub are kept as the list of what is still to run; the    *)
(* requirements themselves are left to the run of Spec.                    *)
(***************************************************************************)

\* a statement of the run: what it does, to which step, with what
Statement(op, step_id, index, step_status, percent, can_raise) ==
    [op |-> op, step_id |-> step_id, index |-> index,
     status |-> step_status, percent |-> percent, can_raise |-> can_raise]

\* progress.update_step(step_id, status, percent, message)
update(step_id, step_status, percent) ==
    Statement("update", step_id, 0, step_status, percent, FALSE)

\* a send of the step before the one that was updated
send_step_of_previous(index) ==
    Statement("send_step", "none", IF index > 1 THEN index - 1 ELSE index,
              STEP_PENDING, 0, TRUE)

\* await websocket_manager.send_update(session_id,
\*     ProgressUpdate.create_step_update(session_id, progress.steps[index - 1]))
send_step(index) ==
    Statement("send_step", "none", index, STEP_PENDING, 0, TRUE)

\* await websocket_manager.send_update(session_id,
\*     ProgressUpdate.create_progress_update(session_id, progress))
send_progress == Statement("send_progress", "none", 0, STEP_PENDING, 0, TRUE)

\* an awaited call of a stage, which raises or cannot
await(call, can_raise) ==
    Statement("await", call, 0, STEP_PENDING, 0, can_raise)

\* any other statement kind: the for header, the verify call, the test
\* before the break, lines 156-157, the completion event
other(op) == Statement(op, "none", 0, STEP_PENDING, 0, FALSE)

\* lines 84-129, with the bodies of _stage_1_initial_draft_with_progress
\* (407-415) and _stage_2_self_improvement_with_progress (434-446)
BeforeLoop ==
    <<send_progress,
      update("doc_parsing", IN_PROGRESS, 0), send_step(1),
      await("parse_documents", TRUE),
      update("doc_parsing", COMPLETED, 100), send_step(1), send_progress,
      update("stage1", IN_PROGRESS, 0), send_step(2),
      update("stage1", IN_PROGRESS, 25), send_step(2),
      await("generate_initial_draft", FALSE),
      update("stage1", IN_PROGRESS, 75), send_step(2),
      update("stage1", COMPLETED, 100), send_step(2),
      update("stage2", IN_PROGRESS, 0), send_step(3),
      update("stage2", IN_PROGRESS, 25), send_step(3),
      await("self_improvement_pass", FALSE),
      update("stage2", IN_PROGRESS, 75), send_step(3),
      update("stage2", COMPLETED, 100), send_step(3),
      update("verification_loop", IN_PROGRESS, 0), send_step(4),
      other("for")>>

\* line 470: int((iteration / max_iterations) * 80)
iteration_progress(index, maximum) == (80 * index) \div maximum

\* lines 466-480: the body of the loop up to the verify call
Iteration(index, maximum) ==
    <<update("verification_loop", IN_PROGRESS,
             iteration_progress(index, maximum)),
      send_step(4), send_progress, other("verify")>>

\* lines 491-497: after a pass without critical errors
AfterCleanPass(index, maximum) ==
    <<update("verification_loop", IN_PROGRESS,
             iteration_progress(index, maximum) + 10),
      send_step(4), other("break_test"),
      await("fix_verification_issues", FALSE), other("for")>>

\* lines 499-522: after a pass with critical errors
AfterFailingPass(index, maximum) ==
    <<update("verification_loop", IN_PROGRESS,
             iteration_progress(index, maximum) + 5),
      send_step(4),
      await("fix_verification_issues", FALSE), other("for")>>

\* lines 133-175
AfterLoop ==
    <<update("verification_loop", COMPLETED, 100), send_step(4),
      update("stage6", IN_PROGRESS, 0), send_step(5),
      await("_stage_6_final_decision", FALSE),
      update("stage6", COMPLETED, 100), send_step(5),
      update("completion", IN_PROGRESS, 50), send_step(6),
      await("_save_results_to_file", TRUE),
      update("completion", IN_PROGRESS, 75), send_step(6),
      other("finish"),
      update("completion", COMPLETED, 100), send_step(6), send_progress,
      other("complete")>>

\* the statement the run is at
at(op) ==
    /\ session.pc = "running"
    /\ session.script # << >>
    /\ Head(session.script).op = op

\* the statement is done: on to the next one, inside the try block
moved_on(run) == [run EXCEPT !.script = Tail(@), !.in_try = TRUE]

\* ProgressUpdate.create_step_update, progress.py lines 98-114
create_step_update(step) ==
    [type |-> "step_update", step_id |-> step.step_id,
     status |-> step.status, progress_percent |-> step.progress_percent,
     overall_progress |-> 0]

\* ProgressUpdate.create_progress_update, progress.py lines 116-131
create_progress_update(tracker) ==
    [type |-> "progress_update", step_id |-> "none",
     status |-> tracker.status, progress_percent |-> 0,
     overall_progress |-> tracker.overall_progress]

\* history: the statuses of the step_update events of a step, each with
\* whether it carried 100 percent
with_emitted(emitted, index, step) ==
    [emitted EXCEPT ![index] =
        @ \cup {<<step.status, step.progress_percent = 100>>}]

\* a progress.update_step(...) statement
CallUpdateStep ==
    /\ at("update")
    /\ LET statement == Head(session.script)
       IN  /\ progress' = update_step(progress, statement.step_id,
                                      statement.status, statement.percent)
           /\ updated' = statement.step_id
    /\ session' = moved_on(session)
    /\ UNCHANGED <<event, beside_tracker>>

\* a step_update event is handed to the hub, which returns
SendStepUpdate ==
    /\ at("send_step")
    /\ LET step == progress.steps[Head(session.script).index]
       IN  /\ event' = create_step_update(step)
           /\ session' = [moved_on(session) EXCEPT
                             !.emitted = with_emitted(
                                 @, Head(session.script).index, step),
                             !.last_percent[Head(session.script).index] =
                                 step.progress_percent]
    /\ UNCHANGED <<progress, updated, beside_tracker>>

\* a progress_update event is handed to the hub, which returns
SendProgressUpdate ==
    /\ at("send_progress")
    /\ event' = create_progress_update(progress)
    /\ session' = [moved_on(session) EXCEPT
                      !.reported = progress.overall_progress]
    /\ UNCHANGED <<progress, updated, beside_tracker>>

\* an awaited stage returns
AwaitReturns ==
    /\ at("await")
    /\ session' = moved_on(session)
    /\ UNCHANGED <<progress, updated, event, beside_tracker>>

\* an awaited call raises (a send_update its KeyError, parse_documents,
\* verify_requirements, _save_results_to_file their own errors): into the
\* except block of line 177, or out of the run for the send of lines 84-87
AwaitRaises ==
    /\ session.pc = "running"
    /\ session.script # << >>
    /\ Head(session.script).can_raise \/ Head(session.script).op = "verify"
    /\ session' = [session EXCEPT
                      !.pc = IF session.in_try THEN "except" ELSE "raised"]
    /\ UNCHANGED <<progress, updated, event, beside_tracker>>

\* lines 465-467: range(max_iterations) yields the next index, or the
\* loop is over
ForHeader ==
    /\ at("for")
    /\ IF session.iteration < session.max_iterations
       THEN /\ session' = [session EXCEPT
                   !.script = Iteration(session.iteration,
                                        session.max_iterations),
                   !.iteration = @ + 1]
            /\ progress' = [progress EXCEPT
                   !.current_iteration = session.iteration + 1]
       ELSE /\ session' = [session EXCEPT !.script = AfterLoop]
            /\ UNCHANGED progress
    /\ UNCHANGED <<updated, event, beside_tracker>>

\* lines 476-499: verify_requirements returns, with or without critical
\* errors
VerifyReturns ==
    /\ at("verify")
    /\ \E clean \in BOOLEAN :
          session' = [session EXCEPT
              !.consecutive_passes = IF clean THEN @ + 1 ELSE 0,
              !.script =
                  IF clean
                  THEN AfterCleanPass(session.iteration - 1,
                                      session.max_iterations)
                  ELSE AfterFailingPass(session.iteration - 1,
                                        session.max_iterations)]
    /\ UNCHANGED <<progress, updated, event, beside_tracker>>

\* lines 496-497: if consecutive_passes >= acceptance_threshold: break
BreakTest ==
    /\ at("break_test")
    /\ session' =
           IF session.consecutive_passes >= session.acceptance_threshold
           THEN [session EXCEPT !.script = AfterLoop]
           ELSE moved_on(session)
    /\ UNCHANGED <<progress, updated, event, beside_tracker>>

\* lines 156-157: progress.status = COMPLETED, overall_progress = 100
Finish ==
    /\ at("finish")
    /\ progress' = [progress EXCEPT !.status = COMPLETED,
                                    !.overall_progress = 100]
    /\ session' = moved_on(session)
    /\ UNCHANGED <<updated, event, beside_tracker>>

\* lines 164-175: the completion event is handed to the hub, which
\* returns, and the run returns
SendCompletion ==
    /\ at("complete")
    /\ event' = [NoEvent EXCEPT !.type = "complete"]
    /\ session' = [session EXCEPT !.pc = "returned", !.script = << >>,
                                  !.completes = @ + 1]
    /\ UNCHANGED <<progress, updated, beside_tracker>>

\* the completion event is handed to the hub, whose send_update raises
\* from its cleanup block, after the deliveries
SendCompletionRaises ==
    /\ at("complete")
    /\ event' = [NoEvent EXCEPT !.type = "complete"]
    /\ session' = [session EXCEPT !.pc = "except", !.completes = @ + 1]
    /\ UNCHANGED <<progress, updated, beside_tracker>>

\* lines 177-191: the except block marks the tracker failed, hands the
\* error event to the hub and re-raises
ExceptBlock ==
    /\ session.pc = "except"
    /\ progress' = [progress EXCEPT !.status = STEP_FAILED]
    /\ event' = [NoEvent EXCEPT !.type = "error"]
    /\ session' = [session EXCEPT !.pc = "raised", !.errors = @ + 1]
    /\ UNCHANGED <<updated, beside_tracker>>

\* _process_documents_background, pipeline_router.py lines 196-207: the
\* background task catches what the run raised and hands an error event
\* of its own to the hub
BackgroundExcept ==
    /\ session.pc = "raised"
    /\ event' = [NoEvent EXCEPT !.type = "error"]
    /\ session' = [session EXCEPT !.pc = "failed", !.errors = @ + 1]
    /\ UNCHANGED <<progress, updated, beside_tracker>>

\* the tracker and the settings of a session run, lines 65-81
SessionInit ==
    /\ RunIdle
    /\ TwinIdle
    /\ AdapterIdle
    /\ LlmIdle
    /\ HubIdle
    /\ progress = PipelineProgress(Len(StepIds))
    /\ updated = NotUpdated
    /\ event = NoEvent
    /\ \E maximum \in MAX_ITERATIONS_GE..MAX_ITERATIONS_LE,
          threshold \in ACCEPTANCE_THRESHOLD_GE..ACCEPTANCE_THRESHOLD_LE :
          session = [NoSession EXCEPT !.pc = "running",
                                      !.script = BeforeLoop,
                                      !.max_iterations = maximum,
                                      !.acceptance_threshold = threshold]

SessionNext ==
    \/ CallUpdateStep
    \/ SendStepUpdate
    \/ SendProgressUpdate
    \/ AwaitReturns
    \/ AwaitRaises
    \/ ForHeader
    \/ VerifyReturns
    \/ BreakTest
    \/ Finish
    \/ SendCompletion
    \/ SendCompletionRaises
    \/ ExceptBlock
    \/ BackgroundExcept

SessionSpec == SessionInit /\ [][SessionNext]_vars

(***************************************************************************)
(* Properties of the verification loop and of the final status.            *)
(***************************************************************************)

LoopExited == loop_state \in {"Converged", "Exhausted"}

\* the number of clean passes in a row that end at the last returned pass
CleanRun == n_verify - last_fail

\* C1: the loop performs exactly k iterations, k being the first iteration
\* at which the last acceptance_threshold passes were all clean, or
\* max_iterations when there is none: while the loop goes on no such
\* iteration has occurred, at a break the clean run has just reached the
\* threshold, and the loop is exhausted only at max_iterations
C1_LoopExitsAtFirstConvergence ==
    /\ pc \in {"loop", "stage4", "stage5"}
          => CleanRun < acceptance_threshold
    /\ loop_state = "Converged"
          => /\ iteration_count = n_verify
             /\ iteration_count <= max_iterations
             /\ CleanRun = acceptance_threshold
    /\ loop_state = "Exhausted"
          => /\ iteration_count = n_verify
             /\ iteration_count = max_iterations
             /\ CleanRun < acceptance_threshold

\* Scenario A: max 5, threshold 3, failing in 1-2, clean in 3, 4, 5
C1_Witness ==
    /\ max_iterations = 5 /\ acceptance_threshold = 3
    /\ loop_state = "Converged"
    /\ last_fail = 2
    /\ iteration_count = 5

\* C2: 0 <= iteration_count <= max_iterations in every state, and
\* iteration_count never decreases from one state to the next
C2_IterationCountBoundedMonotone ==
    /\ [](0 <= iteration_count /\ iteration_count <= max_iterations)
    /\ [][iteration_count' >= iteration_count]_vars

C2_Witness ==
    /\ max_iterations = MAX_ITERATIONS_LE
    /\ iteration_count = max_iterations
    /\ result = "returned"

\* C3: every run terminates: it returns or raises, after at most
\* max_iterations verification passes, and a run that returns has left the
\* loop Converged or Exhausted and has reached stage 6
C3_RunTerminates ==
    /\ <>(result # "running")
    /\ [](n_verify <= max_iterations)
    /\ [](result = "returned"
             => LoopExited /\ pipeline_stage = 6)

C3_Witness ==
    /\ result = "returned"
    /\ loop_state = "Exhausted"
    /\ n_verify = max_iterations
    /\ max_iterations = MAX_ITERATIONS_LE

\* C4: a verification pass that reports a critical error leaves
\* consecutive_passes at 0 whatever it was, a clean pass adds 1 to it
C4_CounterResetOrIncrement ==
    [][n_verify' = n_verify + 1
         => consecutive_passes' =
               IF critical_errors(verification_issues') # <<>>
               THEN 0
               ELSE consecutive_passes + 1]_vars

\* a failing second pass after a clean first one: the counter went 1 -> 0
C4_Witness ==
    /\ n_verify = 2 /\ last_fail = 2 /\ ever_clean
    /\ consecutive_passes = 0
    /\ acceptance_threshold >= 2

\* C5: the threshold is tested in the pass that produced the clean
\* verification: the loop becomes Converged in a verification step, and
\* from then on no stage 4 or 5 runs, no further iteration starts, and the
\* requirement list is the one that was just verified clean
C5_BreakInTheVerifyingIteration ==
    /\ [](loop_state = "Converged"
            => /\ pc \in {"stage6", "save", "completion", "except", "done"}
               /\ pipeline_stage \in {3, 6}
               /\ iteration_count = n_verify
               /\ iteration = iteration_count
               /\ consecutive_passes >= acceptance_threshold
               /\ critical_errors(verification_issues) = <<>>
               /\ business_requirements = verified_requirements)
    /\ [][loop_state' = "Converged" /\ loop_state # "Converged"
            => n_verify' = n_verify + 1]_vars

C5_Witness ==
    /\ loop_state = "Converged"
    /\ pipeline_stage = 6
    /\ result = "returned"
    /\ business_requirements # <<>>
    /\ verification_issues # <<>>
    /\ iteration_count < max_iterations

\* C6: status = accepted only if the loop ended Converged
C6_AcceptedOnlyIfConverged ==
    status = "accepted" => loop_state = "Converged"

\* C7: an accepted aggregate holds no critical-error issue
C7_AcceptedHasNoCriticalError ==
    status = "accepted" => critical_errors(verification_issues) = <<>>

C7_Witness ==
    /\ status = "accepted"
    /\ verification_issues # <<>>

\* C8: when every verification pass reported a critical error, the step
\* that enters stage 6 finds the loop Exhausted after exactly
\* max_iterations iterations and sets status = rejected
C8_AllFailingExhaustsAndRejects ==
    [][(pipeline_stage' = 6 /\ pipeline_stage # 6 /\ ~ever_clean)
         => /\ loop_state = "Exhausted"
            /\ iteration_count = max_iterations
            /\ n_verify = max_iterations
            /\ status' = "rejected"]_vars

C8_Witness ==
    /\ pipeline_stage = 6
    /\ ~ever_clean
    /\ status = "rejected"
    /\ iteration_count = MAX_ITERATIONS_LE

\* C9: a finished run leaves the aggregate accepted or rejected when it
\* returned and error when it raised, and error only when it raised
C9_FinalStatusMatchesOutcome ==
    (created /\ result # "running")
        => /\ status \in {"accepted", "rejected", "error"}
           /\ result = "returned" => status \in {"accepted", "rejected"}
           /\ result = "raised" => status = "error"
           /\ status = "error" => result = "raised"

\* C10: once the status is accepted, rejected or error it never changes
C10_StatusChangesAtMostOnce ==
    [][status # "in_progress" => status' = status]_vars

(***************************************************************************)
(* Properties of the stage order and of the failure handling of a run.     *)
(***************************************************************************)

\* the steps pipeline_stage may take: 1 to 2, 2 to 3, from 3 to 4 with the
\* review hook and to 5 without it, 4 to 5, from 5 back to 3, and from 3
\* (convergence) or 5 (exhaustion) to 6
StageStep(from, to) ==
    \/ to = from
    \/ from = 1 /\ to = 2
    \/ from = 2 /\ to = 3
    \/ from = 3 /\ to = 4 /\ enable_stage_4_review
    \/ from = 3 /\ to = 5 /\ ~enable_stage_4_review
    \/ from = 4 /\ to = 5
    \/ from = 5 /\ to = 3
    \/ from \in {3, 5} /\ to = 6

\* C11: pipeline_stage stays in 1..6 and moves only along 1, 2, rounds of
\* 3, (4,) 5, then 6: 1, 2 and 6 are never entered a second time, nothing
\* follows 6, 4 occurs only with enable_stage_4_review, and a run that
\* returns has reached 6
C11_StageOrder ==
    [][ /\ StageStep(pipeline_stage, pipeline_stage')
        /\ pipeline_stage' \in 1..6
        /\ (pipeline_stage' = 4 => enable_stage_4_review)
        /\ (result' = "returned" => pipeline_stage' = 6) ]_vars

\* a run with the review hook that made two rounds and returned at stage 6
C11_Witness ==
    /\ result = "returned"
    /\ pipeline_stage = 6
    /\ enable_stage_4_review
    /\ iteration >= 2

\* the run is over: it returned or its exception reached the caller
RunOver == pc = "done"

\* C12: when a stage raised an error that nothing absorbed (verify is the
\* stage that can: the ValidationError of its coverage metrics), the run
\* ends with status = error, with one error event sent in the session run,
\* and with that stage's error raised to the caller
C12_StageErrorIsFatal ==
    (RunOver /\ fatal = VALIDATION_ERROR) =>
        /\ result = "raised"
        /\ raised = VALIDATION_ERROR
        /\ status = "error"
        /\ (entry_point = WITH_PROGRESS => error_events = 1)

\* C13: in both entry points a run whose parse_documents raised ends with
\* status = error, with one error event sent in the session run, and with
\* the ValueError raised to the caller
C13_DocumentFailureIsFatal ==
    (RunOver /\ fatal = VALUE_ERROR) =>
        /\ result = "raised"
        /\ raised = VALUE_ERROR
        /\ status = "error"
        /\ (entry_point = WITH_PROGRESS => error_events = 1)

\* C19: a run whose documents resolved (and whose hub sends and result
\* file did not fail) returns with status accepted or rejected, whatever
\* the oracle made of the requirements and their issues
C19_OracleOutcomesNeverFatal ==
    (RunOver /\ documents_resolved /\ fatal \notin {KEY_ERROR, OS_ERROR}) =>
        /\ result = "returned"
        /\ status \in {"accepted", "rejected"}

(***************************************************************************)
(* Properties of the adapters' fallbacks.                                  *)
(***************************************************************************)

\* the adapter call has run and its oracle call had failed
DraftFellBack ==
    /\ adapter_in.op = "draft"
    /\ adapter_out # PENDING
    /\ adapter_in.oracle \in OracleFailures

\* C14: for every document map, a draft whose oracle call failed (or
\* replied with something that is not JSON) does not raise and returns
\* exactly one requirement, the placeholder, and no hypothesis
C14_DraftFallbackIsOnePlaceholder ==
    DraftFellBack =>
        /\ adapter_out.raised = NONE
        /\ adapter_out.requirements = <<PLACEHOLDER>>
        /\ adapter_out.hypotheses = 0

\* the improve call has run and its oracle call had failed
ImproveFellBack ==
    /\ adapter_in.op = "improve"
    /\ adapter_out # PENDING
    /\ adapter_in.oracle \in OracleFailures

\* fix_verification_issues calls the oracle for br_id b (it has a
\* critical-error issue) and the call fails
FixCallFailed(b) ==
    /\ b \in adapter_in.llm_fails
    /\ \E k \in DOMAIN adapter_in.issues :
          /\ adapter_in.issues[k].br_id = b
          /\ adapter_in.issues[k].error_type = CRITICAL_ERROR

\* the fix call has run and one of its oracle calls had failed
FixFellBack ==
    /\ adapter_in.op = "fix"
    /\ adapter_out # PENDING
    /\ \E k \in DOMAIN adapter_in.requirements :
          FixCallFailed(adapter_in.requirements[k])

\* C15 as stated: an improve or a fix whose oracle call failed does not
\* raise and returns its input list unchanged
C15_FallbackReturnsInput ==
    (ImproveFellBack \/ FixFellBack) =>
        /\ adapter_out.raised = NONE
        /\ adapter_out.requirements = adapter_in.requirements

\* C15 amended: an improve whose oracle call failed returns its input
\* list unchanged; a fix never raises and returns its input list, in
\* order, without the requirements whose oracle call failed
C15_FallbackKeepsOrDropsFailed ==
    /\ ImproveFellBack =>
          /\ adapter_out.raised = NONE
          /\ adapter_out.requirements = adapter_in.requirements
    /\ (adapter_in.op = "fix" /\ adapter_out # PENDING) =>
          /\ adapter_out.raised = NONE
          /\ adapter_out.requirements =
                SelectSeq(adapter_in.requirements,
                          LAMBDA b : ~FixCallFailed(b))

\* a fix of two requirements that lost the one whose oracle call failed
C15_Witness ==
    /\ FixFellBack
    /\ Len(adapter_in.requirements) = 2
    /\ Len(adapter_out.requirements) = 1

(***************************************************************************)
(* Properties of the verifier's sub-checks.                                *)
(***************************************************************************)

\* the checks of one requirement have run
Verified == adapter_in.op = "verify" /\ adapter_out # PENDING

\* the issues a sub-check contributed
IssuesOf(check) ==
    SelectSeq(adapter_out.issues, LAMBDA issue : issue.check = check)

\* the issues of one finding
Found(what) ==
    SelectSeq(adapter_out.issues, LAMBDA issue : issue.what = what)

\* the citations of the verified requirement that name an unknown
\* document, and those whose text is not in the document they name
UnknownDocumentCitations ==
    SelectSeq(adapter_in.requirement.citations,
              LAMBDA c : ~c.document_known)
TextNotFoundCitations ==
    SelectSeq(adapter_in.requirement.citations,
              LAMBDA c : c.document_known /\ ~c.text_found)

\* the sub-check made its oracle call and the call failed
SemanticCallFailed ==
    /\ adapter_in.requirement.citations # <<>>
    /\ adapter_in.semantic = FAILED
AtomicityCallFailed == adapter_in.atomicity = FAILED
NumericalCallFailed ==
    /\ adapter_in.requirement.description.numbers
    /\ adapter_in.numerical = FAILED

\* C16 as stated: a sub-check whose oracle call failed contributes no
\* issue, and the pass does not raise
C16_FailedSubCheckHasNoIssue ==
    Verified =>
        /\ adapter_out.raised = NONE
        /\ SemanticCallFailed => IssuesOf("semantic") = <<>>
        /\ AtomicityCallFailed => IssuesOf("atomicity") = <<>>
        /\ NumericalCallFailed => IssuesOf("numerical") = <<>>

\* what the atomicity heuristics find in the verified description
HeuristicFindings ==
    LET d == adapter_in.requirement.description
    IN (IF ~d.empty /\ d.and_count > 2 THEN 1 ELSE 0)
       + (IF ~d.empty /\ d.modal_count > 1 THEN 1 ELSE 0)

\* C16 amended: a semantic or numerical sub-check whose oracle call
\* failed contributes no issue; an atomicity sub-check whose call failed
\* contributes the findings of its heuristics, all justification gaps;
\* the pass does not raise
C16_FailedSubCheckFallsBack ==
    Verified =>
        /\ adapter_out.raised = NONE
        /\ SemanticCallFailed => IssuesOf("semantic") = <<>>
        /\ NumericalCallFailed => IssuesOf("numerical") = <<>>
        /\ AtomicityCallFailed =>
              /\ Len(IssuesOf("atomicity")) = HeuristicFindings
              /\ \A k \in DOMAIN IssuesOf("atomicity") :
                    IssuesOf("atomicity")[k].error_type = JUSTIFICATION_GAP

\* all three oracle calls failed on a compound description with numbers:
\* the heuristics found both of their gaps, the other two found nothing
C16_Witness ==
    /\ Verified
    /\ SemanticCallFailed /\ AtomicityCallFailed /\ NumericalCallFailed
    /\ Len(IssuesOf("atomicity")) = 2
    /\ IssuesOf("semantic") = <<>>

\* C17: whatever the oracle calls returned, the pass reports a critical
\* error for a requirement without citations, for every citation of an
\* unknown document, for every citation whose text is not in its
\* document and for an empty description, and a justification gap for
\* an empty title and for an empty stakeholder list
C17_OracleIndependentChecksAlwaysRun ==
    Verified =>
        LET requirement == adapter_in.requirement
            Reported(what, error_type, n) ==
                /\ Len(Found(what)) = n
                /\ \A k \in DOMAIN Found(what) :
                      Found(what)[k].error_type = error_type
        IN /\ Reported("no_citations", CRITICAL_ERROR,
                       IF requirement.citations = <<>> THEN 1 ELSE 0)
           /\ Reported("document_missing", CRITICAL_ERROR,
                       Len(UnknownDocumentCitations))
           /\ Reported("text_not_found", CRITICAL_ERROR,
                       Len(TextNotFoundCitations))
           /\ Reported("missing_description", CRITICAL_ERROR,
                       IF requirement.description.empty THEN 1 ELSE 0)
           /\ Reported("missing_title", JUSTIFICATION_GAP,
                       IF requirement.title_empty THEN 1 ELSE 0)
           /\ Reported("no_stakeholders", JUSTIFICATION_GAP,
                       IF requirement.stakeholders_empty THEN 1 ELSE 0)

\* every oracle call failed on a requirement without citations, title,
\* description and stakeholders, and all four findings are reported
C17_Witness ==
    /\ Verified
    /\ adapter_in.semantic = FAILED
    /\ adapter_in.atomicity = FAILED
    /\ adapter_in.numerical = FAILED
    /\ adapter_in.requirement.citations = <<>>
    /\ adapter_in.requirement.description.empty
    /\ Len(adapter_out.issues) = 4

(***************************************************************************)
(* Properties of the oracle call.                                          *)
(***************************************************************************)

\* C18: an attempt that failed with an authentication error, or whose
\* reply was malformed, is the last attempt of its call, which is over
\* (raised to the adapter): the failure is not slept on and not retried,
\* so every failure that was followed by another attempt was transient
C18_OnlyTransientFailuresRetried ==
    \A k \in DOMAIN failures :
        failures[k] \in {AUTHENTICATION, MALFORMED} =>
            /\ k = Len(failures)
            /\ llm_pc = "raised"

(***************************************************************************)
(* Properties of the event hub.                                            *)
(***************************************************************************)

\* the websockets registered under any session
Registered ==
    UNION { active_connections[s] : s \in DOMAIN active_connections }

\* C20: a send_update call that is over and had a delivery fail returned
\* without raising, every other websocket of its copy received the event,
\* and no websocket whose delivery failed is registered any more
C20_FailedDeliveryIsDroppedQuietly ==
    \A p \in Senders :
        (sends[p].pc \in {"returned", KEY_ERROR}
            /\ sends[p].connections_to_remove # {}) =>
            /\ sends[p].pc = "returned"
            /\ sends[p].delivered =
                   sends[p].snapshot \ sends[p].connections_to_remove
            /\ sends[p].connections_to_remove \cap Registered = {}
\* a send_update call is made for a session without an entry
SentToNobody(p) ==
    /\ sends[p].pc = "idle"
    /\ sends'[p].pc # "idle"
    /\ ~registered(active_connections, sends'[p].session_id)

\* C21: a send_update for a session that has no subscriber returns without
\* an error, delivers to nobody and leaves the registry of every session
\* as it was
C21_SendToNobodyIsNoOp ==
    [][\A p \in Senders :
          SentToNobody(p) =>
              /\ sends'[p].pc = "returned"
              /\ sends'[p].delivered = {}
              /\ sends'[p].remaining = {}
              /\ active_connections' = active_connections]_vars

\* a call for a session without subscribers has returned while another
\* session has subscribers
C21_Witness ==
    \E p \in Senders :
        /\ sends[p].pc = "returned"
        /\ sends[p].snapshot = {}
        /\ ~registered(active_connections, sends[p].session_id)
        /\ active_connections # << >>

\* C22: no session of the registry maps to an empty set of subscribers,
\* in any state reached by interleaving connect, disconnect and send_update
C22_NoEmptyEntry ==
    \A session_id \in DOMAIN active_connections :
        active_connections[session_id] # {}

\* the cleanup of a send_update removed the last subscriber of its session
\* and a disconnect has removed a subscriber
C22_Witness ==
    /\ \E p \in Senders :
          /\ sends[p].pc = "returned"
          /\ sends[p].connections_to_remove # {}
          /\ ~registered(active_connections, sends[p].session_id)
    /\ \E websocket \in Sockets : endpoint[websocket] = "gone"

\* the registry entry of a session is the same before and after the step
EntryUnchanged(session_id) ==
    /\ registered(active_connections', session_id)
           = registered(active_connections, session_id)
    /\ registered(active_connections, session_id) =>
           active_connections'[session_id] = active_connections[session_id]

\* C23: a send_update for a session copies only websockets connected under
\* that session, delivers only to websockets of its copy, and none of its
\* steps changes the registry entry of another session
C23_SendStaysInItsSession ==
    [][\A p \in Senders :
          sends'[p] # sends[p] =>
              /\ sends[p].pc = "idle" =>
                     \A websocket \in sends'[p].snapshot :
                         endpoint[websocket] = sends'[p].session_id
              /\ sends'[p].delivered \subseteq sends'[p].snapshot
              /\ \A session_id \in Sessions \ {sends'[p].session_id} :
                     EntryUnchanged(session_id)]_vars

\* two calls for two sessions have overlapped: one has dropped a failed
\* subscriber and returned, the other has delivered and is still sending
\* to a session that is registered
C23_Witness ==
    \E p, q \in Senders :
        /\ sends[p].session_id # sends[q].session_id
        /\ sends[p].pc = "returned"
        /\ sends[p].connections_to_remove # {}
        /\ sends[q].pc = "sending"
        /\ sends[q].delivered # {}
        /\ registered(active_connections, sends[q].session_id)

\* the websockets a call has awaited send_text for
Attempted(call) == call.delivered \cup call.connections_to_remove

\* C28: a send_update delivers over the copy it took when it started: the
\* copy does not change while the call is suspended, a websocket that was
\* not connected when the copy was taken is not in it and is never sent
\* the event, and send_text is awaited at most once for each websocket of
\* the copy
C28_DeliveryOverSnapshot ==
    [][\A p \in Senders :
          /\ sends[p].pc = "sending" =>
                 /\ sends'[p].snapshot = sends[p].snapshot
                 /\ \A websocket \in Attempted(sends'[p])
                                      \ Attempted(sends[p]) :
                        /\ websocket \in sends[p].remaining
                        /\ websocket \notin sends'[p].remaining
          /\ sends'[p].delivered \cap sends'[p].connections_to_remove = {}
          /\ sends'[p].remaining \cup Attempted(sends'[p])
                 = sends'[p].snapshot
          /\ sends'[p].remaining \cap Attempted(sends'[p]) = {}
          /\ \A websocket \in Sockets :
                 endpoint'[websocket] = "new" =>
                     websocket \notin sends'[p].snapshot]_vars

\* while a call is suspended in send_text, a websocket of its copy has
\* disconnected and another websocket has connected to its session: the
\* late one is registered but is not in the copy
C28_Witness ==
    \E p \in Senders :
        /\ sends[p].pc = "sending"
        /\ sends[p].delivered # {}
        /\ \E websocket \in sends[p].snapshot : endpoint[websocket] = "gone"
        /\ registered(active_connections, sends[p].session_id)
        /\ active_connections[sends[p].session_id] \ sends[p].snapshot # {}

\* C24: a broadcast_to_all that has ended has returned without an error
\* and every session listed when it started has had its turn: send_update
\* either took a copy of its subscribers or found it gone and skipped it
C24_BroadcastReachesEverySession ==
    broadcast.pc \notin {"idle", "sending"} =>
        /\ broadcast.pc = "returned"
        /\ broadcast.served \cup broadcast.skipped
               = elements(broadcast.keys)

\* the API has answered an attempt of the call
Answered == llm_pc \in Contents \cup {"returned"}

\* C29: the retry loop of an oracle call makes at most MAX_RETRIES + 1
\* attempts, sleeps once before each retry with strictly increasing
\* delays, makes no further attempt once the API has answered, and raises
\* the failure of an attempt only when that attempt was the last one
C29_BoundedRetryWithBackoff ==
    [][/\ attempt' <= MAX_RETRIES
       /\ Len(slept') = attempt'
       /\ \A i \in 1..(Len(slept') - 1) : slept'[i] < slept'[i + 1]
       /\ Answered =>
              /\ llm_pc' \notin {"attempt", "sleep"}
              /\ attempt' = attempt
       /\ (llm_pc = "attempt" /\ llm_pc' = "raised") =>
              /\ attempt = MAX_RETRIES
              /\ Len(failures') = MAX_RETRIES + 1]_vars

\* a call raised after its fourth attempt failed, having slept three
\* times
C29_Witness ==
    /\ llm_pc = "raised"
    /\ attempt = MAX_RETRIES
    /\ Len(slept) = MAX_RETRIES
    /\ Len(failures) = MAX_RETRIES + 1
    /\ failures[Len(failures)] = TRANSIENT

\* stage 5 calls fix_verification_issues in this step
FixRuns ==
    /\ pc = "stage5"
    /\ pc' # "stage5"
    /\ verification_issues # << >>

\* C27: the fix operation runs only while an index of range(max_iterations)
\* remains, and the run goes from it to another verification pass
C27_FixOnlyBeforeAnotherPass ==
    [][FixRuns => (iteration < max_iterations /\ pc' = "loop")]_vars

(***************************************************************************)
(* Properties of the progress tracker.                                     *)
(***************************************************************************)

\* the steps of the tracker are numbered i..Len: is i the first in progress
FirstInProgress(steps, i) ==
    /\ steps[i].status = IN_PROGRESS
    /\ \A j \in 1..(i - 1) : steps[j].status # IN_PROGRESS

\* C25: after an update_step call the overall progress is the mean of the
\* step percents rounded down and capped at 100, current_step is the
\* first step in progress, or the last step when all are completed, and
\* a call that names no step of the tracker changes no step
C25_UpdateStepRecomputes ==
    [][LET steps == progress'.steps
           total == total_percent(steps)
       IN  /\ steps # << >> =>
                  /\ progress'.overall_progress * Len(steps) <= total
                         \/ progress'.overall_progress = 100
                  /\ progress'.overall_progress <= 100
                  /\ progress'.overall_progress < 100 =>
                         total < (progress'.overall_progress + 1) * Len(steps)
                  /\ progress'.overall_progress = 100 =>
                         total >= 100 * Len(steps)
           /\ \A i \in DOMAIN steps :
                  FirstInProgress(steps, i) => progress'.current_step = i
           /\ (steps # << >> /\ all_completed(steps)) =>
                  progress'.current_step = Len(steps)
           /\ (\A i \in DOMAIN progress.steps :
                   progress.steps[i].step_id # updated') =>
                  steps = progress.steps]_vars

\* calls have left a tracker with a step in progress after a completed
\* one, at a capped overall progress, and the last call named no step
C25_Witness ==
    /\ Len(progress.steps) = 2
    /\ progress.steps[1].status = COMPLETED
    /\ progress.steps[2].status = IN_PROGRESS
    /\ progress.current_step = 2
    /\ progress.overall_progress = 100
    /\ total_percent(progress.steps) > 200
    /\ updated = "unknown"

(***************************************************************************)
(* Properties of the progress events of a session run.                     *)
(***************************************************************************)

\* C26: within a session run the overall progress never decreases, from
\* one update_step call to the next and from one progress_update event to
\* the next, and the last progress_update event of a run that returned
\* carried 100
C26_OverallProgressNeverDecreases ==
    [][/\ at("update") =>
              progress'.overall_progress >= progress.overall_progress
       /\ at("send_progress") =>
              session'.reported >= session.reported
       /\ session'.pc = "returned" => session'.reported = 100]_vars

\* a step_update event is handed to the hub in this step
StepEventSent ==
    /\ at("send_step")
    /\ session'.script = Tail(session.script)

\* which step of the list a step_update event is about
StepOf(update_event) ==
    CHOOSE k \in 1..Len(StepIds) : StepIds[k] = update_event.step_id

\* step_update events have told of a step in progress and of its
\* completion at 100 percent
EnteredAndCompleted(k) ==
    /\ \E full \in BOOLEAN : <<IN_PROGRESS, full>> \in session.emitted[k]
    /\ <<COMPLETED, TRUE>> \in session.emitted[k]

\* C30: each step_update event of a session run carries the step that
\* update_step has just updated; the first event of a step says in
\* progress and an event that says completed carries 100 percent; the
\* steps' events come in the order of the list, none for a step after an
\* event of a later step; and a run that returned has emitted, for each
\* of the six steps, an in-progress event and a completed event
C30_StepEventsInListOrder ==
    [][/\ StepEventSent =>
              /\ event'.type = "step_update"
              /\ event'.step_id = updated
              /\ event'.step_id \in {StepIds[k] : k \in 1..Len(StepIds)}
              /\ LET k == StepOf(event')
                 IN  /\ event'.status = progress.steps[k].status
                     /\ event'.progress_percent
                            = progress.steps[k].progress_percent
                     /\ session.emitted[k] = {} =>
                            event'.status = IN_PROGRESS
                     /\ event'.status = COMPLETED =>
                            event'.progress_percent = 100
                     /\ \A j \in (k + 1)..Len(StepIds) :
                            session.emitted[j] = {}
                     /\ \A j \in 1..(k - 1) :
                            <<COMPLETED, TRUE>> \in session.emitted[j]
       /\ session'.pc = "returned" =>
              \A k \in 1..Len(StepIds) :
                  /\ \E full \in BOOLEAN :
                        <<IN_PROGRESS, full>> \in session'.emitted[k]
                  /\ <<COMPLETED, TRUE>> \in session'.emitted[k]]_vars

\* a session run has returned after three passes of its loop, with the
\* entry and completion events of all six steps
C30_Witness ==
    /\ session.pc = "returned"
    /\ session.iteration = 3
    /\ event.type = "complete"
    /\ \A k \in 1..Len(StepIds) : EnteredAndCompleted(k)

(***************************************************************************)
(* More properties of the drafting adapter.                                *)
(***************************************************************************)

RECURSIVE is_sub_list(_, _)
\* the first list is the second one with some elements left out
is_sub_list(part, whole) ==
    IF part = << >> THEN TRUE
    ELSE IF whole = << >> THEN FALSE
    ELSE IF Head(part) = Head(whole)
         THEN is_sub_list(Tail(part), Tail(whole))
         ELSE is_sub_list(part, Tail(whole))

\* the issues handed to the fix call hold a critical error of br_id b
HasCriticalError(b) ==
    \E k \in DOMAIN adapter_in.issues :
        /\ adapter_in.issues[k].br_id = b
        /\ adapter_in.issues[k].error_type = CRITICAL_ERROR

\* C31: fix_verification_issues returns its input list with some
\* requirements left out, in the same order and none twice, and leaves
\* out no requirement that has no critical-error issue
C31_FixReturnsOrderedSubList ==
    (adapter_in.op = "fix" /\ adapter_out # PENDING) =>
        /\ is_sub_list(adapter_out.requirements, adapter_in.requirements)
        /\ \A i, j \in DOMAIN adapter_out.requirements :
              i # j => adapter_out.requirements[i]
                           # adapter_out.requirements[j]
        /\ \A k \in DOMAIN adapter_in.requirements :
              ~HasCriticalError(adapter_in.requirements[k]) =>
                  \E i \in DOMAIN adapter_out.requirements :
                      adapter_out.requirements[i]
                          = adapter_in.requirements[k]

\* a fix of two requirements whose oracle calls both fail: the one with
\* a critical error is dropped, the one with only a gap is kept
C31_Witness ==
    /\ adapter_in.op = "fix"
    /\ adapter_out # PENDING
    /\ Len(adapter_in.requirements) = 2
    /\ adapter_in.llm_fails = {1, 2}
    /\ HasCriticalError(adapter_in.requirements[1])
    /\ ~HasCriticalError(adapter_in.requirements[2])
    /\ \E k \in DOMAIN adapter_in.issues :
          adapter_in.issues[k].br_id = adapter_in.requirements[2]
    /\ adapter_out.requirements = <<adapter_in.requirements[2]>>

(***************************************************************************)
(* More properties of the event hub.                                       *)
(***************************************************************************)

\* C32: a send_update call never raises, whatever connect, disconnect and
\* other send_update calls do while it is suspended in send_text
C32_SendUpdateNeverRaises ==
    \A p \in Senders : sends[p].pc # KEY_ERROR

(***************************************************************************)
(* More properties of the run.                                             *)
(***************************************************************************)

\* C33: what the subscribers of a session do never decides how its run
\* ends: no run is ended by an error of the hub, neither with
\* status = error nor with the hub's error raised to the caller
C33_SubscribersNeverFailARun ==
    /\ status = "error" => fatal # KEY_ERROR
    /\ raised # KEY_ERROR

\* C34: verify_requirements never raises: the ratios of its coverage
\* metrics stay within 0..1 whatever the number of critical errors per
\* requirement, so no pass ends in a ValidationError
C34_VerifyRequirementsNeverRaises ==
    /\ fatal # VALIDATION_ERROR
    /\ raised # VALIDATION_ERROR

\* C35: an accepted aggregate holds at least one business requirement
C35_AcceptedHasRequirements ==
    status = "accepted" => business_requirements # << >>

\* C36: once stage 6 has decided, the issues the aggregate holds are
\* those of verifying the requirements it holds: no fix changed the list
\* after the last pass, and every issue names a requirement of the list
C36_IssuesDescribeHeldRequirements ==
    pipeline_stage = 6 =>
        /\ business_requirements = verified_requirements
        /\ \A k \in DOMAIN verification_issues :
              \E j \in DOMAIN business_requirements :
                  business_requirements[j] = verification_issues[k].br_id

(***************************************************************************)
(* The two entry points side by side: process_rfp_documents and            *)
(* process_rfp_documents_with_progress run on the same documents,          *)
(* configuration and oracle outcomes, with every hub send and the saving   *)
(* of the result succeeding.  Each step hands one outcome to both runs.    *)
(***************************************************************************)

beside_twin == <<run_vars, adapter_vars, llm_vars, hub_vars, tracker_vars>>

\* requirement_set.pipeline_stage = stage
at_stage(run, stage) ==
    [run EXCEPT !.pipeline_stage = stage, !.stages = Append(@, stage)]

\* process_rfp_documents, lines 210-223, and _stage_1_initial_draft
plain_draft(run, draft) ==
    LET constructed == [run EXCEPT !.pipeline_stage = 1, !.stages = <<1>>]
    IN [at_stage(constructed, 1) EXCEPT !.business_requirements = draft,
                                        !.pc = "stage2"]

\* _stage_2_self_improvement
plain_improve(run, improved) ==
    [at_stage(run, 2) EXCEPT !.business_requirements = improved,
                             !.pc = "loop"]

\* _verification_loop, lines 315-346: one pass up to stage 4; the
\* ValidationError of the metrics goes to the except block of lines
\* 235-239
plain_pass(run, found, threshold, review) ==
    LET entered == [at_stage(run, 3) EXCEPT
                       !.iteration = @ + 1,
                       !.iteration_count = run.iteration + 1]
        issues == verify_issues(run.business_requirements, found)
        errors == SelectSeq(issues,
                            LAMBDA i : i.error_type = CRITICAL_ERROR)
        passes == IF errors = << >> THEN run.consecutive_passes + 1 ELSE 0
        verified == [entered EXCEPT !.verification_issues = issues,
                                    !.consecutive_passes = passes,
                                    !.n_verify = @ + 1]
    IN IF ~metrics_valid(run.business_requirements, issues)
       THEN [entered EXCEPT !.status = "error",
                            !.raised = VALIDATION_ERROR,
                            !.pc = "done"]
       ELSE IF errors = << >> /\ passes >= threshold
       THEN [verified EXCEPT !.pc = "stage6"]
       ELSE IF review
       THEN [at_stage(verified, 4) EXCEPT !.pc = "stage5"]
       ELSE [verified EXCEPT !.pc = "stage5"]

\* _verification_loop, lines 348-359: stage 5, then the loop header
plain_fix(run, llm_fails, maximum) ==
    LET entered == at_stage(run, 5)
        fixed == IF run.verification_issues # << >>
                 THEN [entered EXCEPT
                          !.business_requirements =
                              fix_verification_issues(
                                  run.business_requirements,
                                  run.verification_issues, llm_fails),
                          !.n_fix = @ + 1]
                 ELSE entered
    IN [fixed EXCEPT !.pc = IF run.iteration >= maximum THEN "stage6"
                                                         ELSE "loop"]

\* process_rfp_documents, lines 232 and 241: _stage_6_final_decision,
\* then return
plain_end(run) ==
    [at_stage(run, 6) EXCEPT !.status = final_status(run.verification_issues),
                             !.pc = "done"]

\* process_rfp_documents_with_progress, lines 64-116, and
\* _stage_1_initial_draft_with_progress: the tracker and the events do
\* not touch the aggregate
progress_draft(run, draft) ==
    LET constructed == [run EXCEPT !.pipeline_stage = 1, !.stages = <<1>>]
    IN [at_stage(constructed, 1) EXCEPT !.business_requirements = draft,
                                        !.pc = "stage2"]

\* lines 118-129 and _stage_2_self_improvement_with_progress
progress_improve(run, improved) ==
    [at_stage(run, 2) EXCEPT !.business_requirements = improved,
                             !.pc = "loop"]

\* _verification_loop_with_progress, lines 465-511: one pass up to stage
\* 4; the ValidationError of the metrics goes to the except block of
\* lines 177-191
progress_pass(run, found, threshold, review) ==
    LET entered == [at_stage(run, 3) EXCEPT
                       !.iteration = @ + 1,
                       !.iteration_count = count_of(run.iteration)]
        issues == verify_issues(run.business_requirements, found)
        passes == passes_after(run.consecutive_passes, issues)
        verified == [entered EXCEPT !.verification_issues = issues,
                                    !.consecutive_passes = passes,
                                    !.n_verify = @ + 1]
        position == next_position(passes, issues, threshold, review)
    IN IF ~metrics_valid(run.business_requirements, issues)
       THEN [entered EXCEPT !.status = handler_status(run.status),
                            !.raised = VALIDATION_ERROR,
                            !.pc = "done"]
       ELSE IF position = "stage4"
       THEN [at_stage(verified, 4) EXCEPT !.pc = "stage5"]
       ELSE [verified EXCEPT !.pc = position]

\* _verification_loop_with_progress, lines 513-524: stage 5, then the
\* loop header
progress_fix(run, llm_fails, maximum) ==
    LET entered == at_stage(run, 5)
        fixed == IF run.verification_issues # << >>
                 THEN [entered EXCEPT
                          !.business_requirements =
                              fix_verification_issues(
                                  run.business_requirements,
                                  run.verification_issues, llm_fails),
                          !.n_fix = @ + 1]
                 ELSE entered
    IN [fixed EXCEPT !.pc = IF range_exhausted(run.iteration, maximum)
                            THEN "stage6" ELSE "loop"]

\* process_rfp_documents_with_progress, lines 131-175:
\* _stage_6_final_decision, the saving of the result, the last events,
\* then return
progress_end(run) ==
    [at_stage(run, 6) EXCEPT !.status = final_status(run.verification_issues),
                             !.pc = "done"]

\* both runs are constructed and stage 1 gets the oracle's draft
TwinDraft ==
    /\ twin.plain.pc = "idle"
    /\ twin.with_progress.pc = "idle"
    /\ \E draft \in RequirementLists :
          twin' = [twin EXCEPT
                      !.plain = plain_draft(@, draft),
                      !.with_progress = progress_draft(@, draft)]
    /\ UNCHANGED beside_twin

\* stage 2 gets the oracle's improved list
TwinImprove ==
    /\ "stage2" \in {twin.plain.pc, twin.with_progress.pc}
    /\ \E improved \in RequirementLists :
          twin' = [twin EXCEPT
                      !.plain = IF @.pc = "stage2"
                                THEN plain_improve(@, improved) ELSE @,
                      !.with_progress =
                          IF @.pc = "stage2"
                          THEN progress_improve(@, improved) ELSE @]
    /\ UNCHANGED beside_twin

\* a verification pass finds the same issues for both runs
TwinVerify ==
    /\ "loop" \in {twin.plain.pc, twin.with_progress.pc}
    /\ \E found \in [BrIds -> SingleRequirementIssues] :
          twin' = [twin EXCEPT
                      !.plain =
                          IF @.pc = "loop"
                          THEN plain_pass(@, found, twin.acceptance_threshold,
                                          twin.enable_stage_4_review)
                          ELSE @,
                      !.with_progress =
                          IF @.pc = "loop"
                          THEN progress_pass(@, found,
                                             twin.acceptance_threshold,
                                             twin.enable_stage_4_review)
                          ELSE @]
    /\ UNCHANGED beside_twin

\* stage 5 with the same oracle failures for both runs
TwinFix ==
    /\ "stage5" \in {twin.plain.pc, twin.with_progress.pc}
    /\ \E llm_fails \in SUBSET BrIds :
          twin' = [twin EXCEPT
                      !.plain =
                          IF @.pc = "stage5"
                          THEN plain_fix(@, llm_fails, twin.max_iterations)
                          ELSE @,
                      !.with_progress =
                          IF @.pc = "stage5"
                          THEN progress_fix(@, llm_fails, twin.max_iterations)
                          ELSE @]
    /\ UNCHANGED beside_twin

\* stage 6 and the return of both runs
TwinDecide ==
    /\ "stage6" \in {twin.plain.pc, twin.with_progress.pc}
    /\ twin' = [twin EXCEPT
                   !.plain = IF @.pc = "stage6" THEN plain_end(@) ELSE @,
                   !.with_progress =
                       IF @.pc = "stage6" THEN progress_end(@) ELSE @]
    /\ UNCHANGED beside_twin

TwinInit ==
    /\ RunIdle
    /\ AdapterIdle
    /\ LlmIdle
    /\ HubIdle
    /\ TrackerIdle
    /\ twin \in
          { [NoTwin EXCEPT !.max_iterations = m,
                           !.acceptance_threshold = t,
                           !.enable_stage_4_review = r] :
              m \in MAX_ITERATIONS_GE..MAX_ITERATIONS_LE,
              t \in ACCEPTANCE_THRESHOLD_GE..ACCEPTANCE_THRESHOLD_LE,
              r \in BOOLEAN }

TwinNext ==
    \/ TwinDraft
    \/ TwinImprove
    \/ TwinVerify
    \/ TwinFix
    \/ TwinDecide

TwinSpec == TwinInit /\ [][TwinNext]_vars

\* C38: on the same documents, configuration and oracle outcomes, with
\* sends and saving succeeding, the two entry points go through the same
\* positions and end with the same sequence of pipeline_stage values, the
\* same numbers of verify and fix calls, the same iteration_count,
\* requirements, issues and status
C38_EntryPointsAgree ==
    /\ twin.plain.pc = twin.with_progress.pc
    /\ twin.plain.pc = "done" =>
          /\ twin.plain.stages = twin.with_progress.stages
          /\ twin.plain.n_verify = twin.with_progress.n_verify
          /\ twin.plain.n_fix = twin.with_progress.n_fix
          /\ twin.plain.iteration_count = twin.with_progress.iteration_count
          /\ twin.plain.business_requirements
                 = twin.with_progress.business_requirements
          /\ twin.plain.verification_issues
                 = twin.with_progress.verification_issues
          /\ twin.plain.status = twin.with_progress.status
          /\ twin.plain.raised = twin.with_progress.raised

\* both runs returned accepted after a failing pass, a review, a fix and
\* a clean pass
C38_Witness ==
    /\ twin.plain.pc = "done"
    /\ twin.with_progress.pc = "done"
    /\ twin.with_progress.status = "accepted"
    /\ twin.with_progress.n_fix = 1
    /\ twin.with_progress.n_verify = 2
    /\ twin.plain.stages = <<1, 1, 2, 3, 4, 5, 3, 6>>
    /\ twin.plain.business_requirements # << >>

(***************************************************************************)
(* More properties of the progress events of a session run.                *)
(***************************************************************************)

\* the indices of the steps of a tracker that are in progress
InProgress(tracker) ==
    {i \in DOMAIN tracker.steps : tracker.steps[i].status = IN_PROGRESS}

\* at most one step is in progress, the steps before it are completed and
\* the steps after it pending
OneStepAtATime(tracker) ==
    \A i \in InProgress(tracker) :
        \A j \in DOMAIN tracker.steps :
            /\ j < i => tracker.steps[j].status = COMPLETED
            /\ j > i => tracker.steps[j].status = STEP_PENDING

\* a step's status stays or moves pending -> in_progress -> completed
StatusMovesForward(before, after) ==
    \/ after = before
    \/ before = STEP_PENDING /\ after \in {IN_PROGRESS, COMPLETED}
    \/ before = IN_PROGRESS /\ after = COMPLETED

\* C37: at most one step is in progress, with completed steps before it
\* and pending steps after it; no step's status moves back; and once the
\* run has failed no step is left in progress
C37_StepStatusDiscipline ==
    [][ /\ OneStepAtATime(progress')
        /\ \A i \in DOMAIN progress.steps :
              StatusMovesForward(progress.steps[i].status,
                                 progress'.steps[i].status)
        /\ (session'.pc = "raised" => InProgress(progress') = {}) ]_vars

\* C40: the percent of each step_update event lies within 0..100 and is
\* not below the percent of the step's previous step_update event
\* (session.last_percent, NO_PERCENT before the step's first event)
C40_StepPercentNeverDecreases ==
    [][StepEventSent =>
          /\ event'.progress_percent \in 0..100
          /\ event'.progress_percent
                 >= session.last_percent[Head(session.script).index]]_vars

\* C39: a session run hands exactly one terminal event to the hub: a
\* run that returned one complete event and no error event, the complete
\* event last and after the progress event with overall_progress = 100;
\* a run that failed one error event and no complete event
C39_OneTerminalEvent ==
    /\ session.pc = "returned" =>
          /\ session.completes = 1
          /\ session.errors = 0
          /\ event.type = "complete"
          /\ session.reported = 100
    /\ session.pc = "failed" =>
          /\ session.errors = 1
          /\ session.completes = 0

====
